---- MODULE Spec2Model ----
(***************************************************************************)
(* The slide-capture pipeline of the Docsend-to-PDF extension:             *)
(*   service_worker.js  the capture orchestrator (startCapture), the byte  *)
(*                      fetch with retry, the two capture strategies       *)
(*   content/content.js the page-side handlers the orchestrator messages   *)
(*                                                                         *)
(* JavaScript runs one handler at a time; a handler gives up control only  *)
(* at an await.  Every action below is one such synchronous segment: from  *)
(* the event that resumes the code to its next await (or its end).         *)
(***************************************************************************)
EXTENDS Integers, Sequences, FiniteSets, TLC

\* ------------------------------------------------------------------ bounds
\* START_CAPTURE messages considered in one behaviour.
MaxRuns == 2
\* Largest totalSlides a START_CAPTURE message carries.
MaxSlides == 2
\* Largest maxRetries a stand-alone fetchImageWithRetry call is given.
MaxProbeRetries == 4
\* Longest image sequence a stand-alone generatePdf call is given.
MaxImages == 2

\* ------------------------------------------------------- program constants
\* fetchImageWithRetry(url, maxRetries = 3)
DefaultMaxRetries == 3
\* parseInt(response.headers.get('Retry-After') || '2')
DefaultRetryAfter == <<"2">>
\* delay(retryAfter * 1000 * attempt) and delay(1000 * attempt)
MsPerSecond == 1000
BaseDelayMs == 1000
TooManyRequests == 429
\* TIMING.slideTransitionDelay, TIMING.screenshotCooldown
SlideTransitionDelay == 800
ScreenshotCooldown == 500

VARIABLES
  activeCapture,   \* service_worker.js: let activeCapture
  runs,            \* the invocations of startCapture, in order of arrival
  inbox,           \* content script -> service worker messages in flight
  sent,            \* messages sent to the popup since the last accepted start
  viewport,        \* per tab: the page the document viewer shows
  visibleTab,      \* the tab chrome.tabs.captureVisibleTab(null, ...) sees
  probe,           \* a stand-alone fetchImageWithRetry call
  listening,       \* whether a popup is open, its onMessage listener attached
  assembler,       \* a stand-alone generatePdf call
  wait,            \* a stand-alone waitForSlideLoad call
  locator,         \* a stand-alone GET_SLIDE_INFO request to the content script
  lookup,          \* a stand-alone fetchSlideImageUrl call
  download,        \* a stand-alone downloadPdf call
  formatter,       \* a stand-alone formatMarkdown call
  popup            \* the popup document: popup.js and the elements it shows

vars == <<activeCapture, runs, inbox, sent, viewport, visibleTab, probe,
          listening, assembler, wait, locator, lookup, download, formatter, popup>>

\* ------------------------------------------------------------ JS numbers
\* A JS number is an integer here, or NaN.
NaN == [nan |-> TRUE, v |-> 0]

Num(n) == [nan |-> FALSE, v |-> n]

\* a * n for a finite n: NaN stays NaN.
Times(a, n) == IF a.nan THEN NaN ELSE Num(a.v * n)

Digits == {"0", "1", "2", "3", "4", "5", "6", "7", "8", "9"}

DigitValue(c) ==
  CASE c = "0" -> 0 [] c = "1" -> 1 [] c = "2" -> 2 [] c = "3" -> 3
    [] c = "4" -> 4 [] c = "5" -> 5 [] c = "6" -> 6 [] c = "7" -> 7
    [] c = "8" -> 8 [] c = "9" -> 9

\* The value of a string of decimal digits (0 for the empty string).
RECURSIVE DecimalOf(_)
DecimalOf(s) ==
  IF s = <<>> THEN 0
  ELSE 10 * DecimalOf(SubSeq(s, 1, Len(s) - 1)) + DigitValue(s[Len(s)])

\* How many leading characters of s are decimal digits.
RECURSIVE LeadingDigits(_)
LeadingDigits(s) ==
  IF s = <<>> \/ s[1] \notin Digits THEN 0 ELSE 1 + LeadingDigits(Tail(s))

\* parseInt(s) without a radix, s a sequence of one-character strings: an
\* optional sign, then the longest run of digits; NaN when there is none.
\* (Header values arrive with surrounding white space already stripped, and
\* none of the strings drawn below starts with 0x.)
ParseInt(s) ==
  LET signed == s # <<>> /\ s[1] \in {"-", "+"}
      body == IF signed THEN Tail(s) ELSE s
      n == LeadingDigits(body)
      magnitude == DecimalOf(SubSeq(body, 1, n))
  IN  IF n = 0 THEN NaN
      ELSE Num(IF signed /\ s[1] = "-" THEN 0 - magnitude ELSE magnitude)

\* ----------------------------------------------------------- HTTP replies
\* headers.get('Retry-After') is null when the header is absent.
NoHeader == <<"null">>

\* Retry-After values a server may send: none, empty, delay-seconds, an
\* HTTP-date ("Wed, 21 Oct ..."), a negative number.
RetryAfterHeaders ==
  {NoHeader, <<>>, <<"0">>, <<"1">>, <<"1", "0">>, <<"W", "e", "d">>, <<"-", "1">>}

\* What one fetch(url) resolves to: a transport error (the promise rejects)
\* or a response with a status.
Responses ==
  {[kind |-> "neterr", status |-> 0, header |-> NoHeader]}
    \cup {[kind |-> "http", status |-> s, header |-> NoHeader] : s \in {200, 500}}
    \cup {[kind |-> "http", status |-> TooManyRequests, header |-> h] :
            h \in RetryAfterHeaders}

\* response.ok
Ok(resp) == resp.status >= 200 /\ resp.status <= 299

\* `HTTP ${response.status}`
HttpErrorMessage(resp) == "HTTP " \o ToString(resp.status)

FetchFailedMessage == "Failed to fetch"

\* ------------------------------------------------------------------ URLs
NoUrl == [page |-> 0, href |-> ""]

\* What a call has returned: nothing yet, undefined, or the bytes of the
\* response to its attempt number `attempt`.
Pending == [kind |-> "pending", attempt |-> 0]

Undefined == [kind |-> "undefined", attempt |-> 0]

Bytes(attempt) == [kind |-> "bytes", attempt |-> attempt]

\* ------------------------------------------------- fetchImageWithRetry
\* One call: st is where it stands (pending: awaiting fetch; body: awaiting
\* arrayBuffer; delay: awaiting delay; returned; threw), log has one entry
\* per finished attempt.
LogEntry(f, kind, header, slept, ms) ==
  [attempt |-> f.attempt, kind |-> kind, header |-> header,
   slept |-> slept, ms |-> ms]

\* The call, up to its first await: the loop is entered when 1 <= maxRetries
\* and the first request goes out.  (The url is handed to fetch unchanged;
\* what comes back is the server's choice.)
FetchStart(maxRetries) ==
  IF 1 <= maxRetries
  THEN [st |-> "pending", maxRetries |-> maxRetries, attempt |-> 1,
        requests |-> 1, log |-> <<>>, result |-> Pending, error |-> ""]
  ELSE [st |-> "returned", maxRetries |-> maxRetries, attempt |-> 1,
        requests |-> 0, log |-> <<>>, result |-> Undefined, error |-> ""]

\* Mutant: the same pause after every failure, delay(1000).
FetchCatchFlat(f, kind, message) ==
  IF f.attempt = f.maxRetries
  THEN [f EXCEPT !.st = "threw", !.error = message,
                 !.log = Append(@, LogEntry(f, kind, NoHeader, FALSE, Num(0)))]
  ELSE [f EXCEPT !.st = "delay",
                 !.log = Append(@, LogEntry(f, kind, NoHeader, TRUE, Num(BaseDelayMs)))]

\* catch (error): rethrow on the last attempt, else delay(1000 * attempt).
FetchCatch(f, kind, message) ==
  IF f.attempt = f.maxRetries
  THEN [f EXCEPT !.st = "threw", !.error = message,
                 !.log = Append(@, LogEntry(f, kind, NoHeader, FALSE, Num(0)))]
  ELSE [f EXCEPT !.st = "delay",
                 !.log = Append(@, LogEntry(f, kind, NoHeader, TRUE,
                                            Num(BaseDelayMs * f.attempt)))]

\* Mutant: the hint is not scaled by the attempt number.
FetchTooManyRequestsFlat(f, resp) ==
  LET text == IF resp.header = NoHeader \/ resp.header = <<>>
              THEN DefaultRetryAfter ELSE resp.header
  IN  [f EXCEPT !.st = "delay",
                !.log = Append(@, LogEntry(f, "429", resp.header, TRUE,
                                           Times(ParseInt(text), MsPerSecond)))]

\* if (response.status === 429): delay(retryAfter * 1000 * attempt); continue
FetchTooManyRequests(f, resp) ==
  LET text == IF resp.header = NoHeader \/ resp.header = <<>>
              THEN DefaultRetryAfter ELSE resp.header
      retryAfter == ParseInt(text)
  IN  [f EXCEPT !.st = "delay",
                !.log = Append(@, LogEntry(f, "429", resp.header, TRUE,
                                  Times(Times(retryAfter, MsPerSecond), f.attempt)))]

\* await fetch(url) settles.
FetchOnResponse(f, resp) ==
  CASE resp.kind = "neterr" -> FetchCatch(f, "neterr", FetchFailedMessage)
    [] resp.kind = "http" /\ resp.status = TooManyRequests ->
         FetchTooManyRequests(f, resp)
    [] resp.kind = "http" /\ resp.status # TooManyRequests /\ ~Ok(resp) ->
         FetchCatch(f, "status", HttpErrorMessage(resp))
    [] OTHER -> [f EXCEPT !.st = "body"]

\* await response.arrayBuffer() settles: the bytes are returned, or the read
\* fails inside the try block.
FetchOnBody(f, complete) ==
  IF complete
  THEN [f EXCEPT !.st = "returned", !.result = Bytes(f.attempt),
                 !.log = Append(@, LogEntry(f, "ok", NoHeader, FALSE, Num(0)))]
  ELSE FetchCatch(f, "bodyerr", FetchFailedMessage)

\* Mutant: a 429 is retried without using up an attempt.
FetchOnTimerFree429(f) ==
  IF f.log[Len(f.log)].kind = "429"
  THEN [f EXCEPT !.st = "pending", !.requests = @ + 1]
  ELSE IF f.attempt + 1 <= f.maxRetries
       THEN [f EXCEPT !.st = "pending", !.attempt = @ + 1, !.requests = @ + 1]
       ELSE [f EXCEPT !.st = "returned", !.attempt = @ + 1, !.result = Undefined]

\* await delay(...) settles: attempt++, and the loop goes round or ends, in
\* which case the function returns without a value.
FetchOnTimer(f) ==
  IF f.attempt + 1 <= f.maxRetries
  THEN [f EXCEPT !.st = "pending", !.attempt = @ + 1, !.requests = @ + 1]
  ELSE [f EXCEPT !.st = "returned", !.attempt = @ + 1, !.result = Undefined]

FetchEnded(f) == f.st \in {"returned", "threw"}

\* A whole call on a script of settlements, one per attempt: what each
\* fetch(url) resolves to and, for an ok response, whether the body read
\* completes.  The call reads and writes its own locals only.
Settlements == Responses \X BOOLEAN

RECURSIVE RunFetch(_, _)
RunFetch(f, script) ==
  IF FetchEnded(f) \/ script = <<>> THEN f
  ELSE LET step == Head(script)
           a == FetchOnResponse(f, step[1])
           b == IF a.st = "body" THEN FetchOnBody(a, step[2]) ELSE a
           c == IF b.st = "delay" THEN FetchOnTimer(b) ELSE b
       IN  RunFetch(c, Tail(script))

\* How a call ended, for its caller: a value or an exception.
Ending(f) == [st |-> f.st, result |-> f.result, error |-> f.error]

\* The ways fetchImageWithRetry(url) can end.
FetchImageWithRetry ==
  {Ending(RunFetch(FetchStart(DefaultMaxRetries), script)) :
     script \in [1..DefaultMaxRetries -> Settlements]}

\* --------------------------------------------------------------- messages
BusyMessage == "A capture is already in progress"

NoReceiverMessage == "Could not establish connection. Receiving end does not exist."

CaptureFailedMessage == "Failed to capture tab"

EmbedTypeErrorMessage == "jpg must be of type string or Uint8Array or ArrayBuffer"

EmbedParseErrorMessage == "SOI not found in JPEG"

DownloadFailedMessage == "Invalid filename"

\* error.message || String(error)
ErrorText(message) == IF message # "" THEN message ELSE "Error"

\* Mutant: progress counts from 0.
ProgressUpdateFromZero(current, total) ==
  [type |-> "PROGRESS_UPDATE", current |-> current - 1, total |-> total, error |-> ""]

\* sendProgressUpdate, sendComplete, sendError
ProgressUpdate(current, total) ==
  [type |-> "PROGRESS_UPDATE", current |-> current, total |-> total, error |-> ""]

CaptureComplete ==
  [type |-> "CAPTURE_COMPLETE", current |-> 0, total |-> 0, error |-> ""]

CaptureError(message) ==
  [type |-> "CAPTURE_ERROR", current |-> 0, total |-> 0, error |-> ErrorText(message)]

\* Content script -> service worker: FETCH_PROGRESS, and the reply to run
\* r's FETCH_SLIDE_URLS.
NullList == [null |-> TRUE, list |-> <<>>]

List(s) == [null |-> FALSE, list |-> s]

FetchProgress(current, total) ==
  [type |-> "FETCH_PROGRESS", current |-> current, total |-> total,
   run |-> 0, urls |-> NullList]

UrlsResponse(r, urls) ==
  [type |-> "URLS_RESPONSE", current |-> 0, total |-> 0, run |-> r, urls |-> urls]

\* ------------------------------------------------------------ page data
\* The URL string href, as page_data/<page> gave it.
Url(page, href) == [page |-> page, href |-> href]

\* What GET <base>/page_data/<n> yields: ok is response.ok with a body that
\* parses; each field is absent, empty or holds a URL string ("u": the
\* page's image, "v": something else).
PageDataReplies ==
  {[ok |-> FALSE, imageUrl |-> "absent", image_url |-> "absent",
    url |-> "absent", src |-> "absent"],
   [ok |-> TRUE, imageUrl |-> "u", image_url |-> "absent",
    url |-> "absent", src |-> "absent"],
   [ok |-> TRUE, imageUrl |-> "", image_url |-> "absent",
    url |-> "u", src |-> "v"],
   [ok |-> TRUE, imageUrl |-> "absent", image_url |-> "absent",
    url |-> "absent", src |-> ""]}

Truthy(value) == value \notin {"absent", ""}

\* Mutant: the fields are tried from the last to the first.
FetchSlideImageUrlBackwards(data, page) ==
  CASE ~data.ok -> NoUrl
    [] data.ok /\ Truthy(data.src) -> Url(page, data.src)
    [] data.ok /\ ~Truthy(data.src) /\ Truthy(data.url) -> Url(page, data.url)
    [] data.ok /\ ~Truthy(data.src) /\ ~Truthy(data.url)
         /\ Truthy(data.image_url) -> Url(page, data.image_url)
    [] data.ok /\ ~Truthy(data.src) /\ ~Truthy(data.url)
         /\ ~Truthy(data.image_url) /\ Truthy(data.imageUrl) ->
         Url(page, data.imageUrl)
    [] OTHER -> NoUrl

\* fetchSlideImageUrl: null on any failure, else
\* data.imageUrl || data.image_url || data.url || data.src
FetchSlideImageUrl(data, page) ==
  CASE ~data.ok -> NoUrl
    [] data.ok /\ Truthy(data.imageUrl) -> Url(page, data.imageUrl)
    [] data.ok /\ ~Truthy(data.imageUrl) /\ Truthy(data.image_url) ->
         Url(page, data.image_url)
    [] data.ok /\ ~Truthy(data.imageUrl) /\ ~Truthy(data.image_url)
         /\ Truthy(data.url) -> Url(page, data.url)
    [] data.ok /\ ~Truthy(data.imageUrl) /\ ~Truthy(data.image_url)
         /\ ~Truthy(data.url) /\ Truthy(data.src) -> Url(page, data.src)
    [] OTHER -> NoUrl

\* ----------------------------------------------------------------- images
\* What fetchImageWithRetry(url) returned.
ApiImage(url, result) ==
  [via |-> "api", kind |-> result.kind, url |-> url, tab |-> 0, page |-> 0]

\* captureVisibleTab(null, ...): the visible tab of the current window.
Screenshot ==
  [via |-> "screenshot", kind |-> "bytes", url |-> NoUrl,
   tab |-> visibleTab, page |-> viewport[visibleTab]]

\* ------------------------------------------------------------------- runs
Tabs == {1, 2}

Titles == {"", "Deck"}

DefaultTitle == "docsend-presentation"

NoCapture == [null |-> TRUE, tabId |-> 0, totalSlides |-> 0]

Capture(tabId, totalSlides) ==
  [null |-> FALSE, tabId |-> tabId, totalSlides |-> totalSlides]

\* What a run does to the world around it, in program order: a page_data
\* lookup or a byte fetch issued for page n, a progress report for page n,
\* GO_TO_SLIDE n or GO_TO_NEXT_SLIDE sent, the page's reply after its
\* load-completion wait, a delay of n ms started, a capture asked for page
\* n, n images handed to generatePdf.
Op(op, n) == [op |-> op, n |-> n]

\* A request that has been issued and has not settled.
Request(kind, page) == [kind |-> kind, page |-> page]

\* One invocation of startCapture: where it stands (pc) and its locals; csI
\* and csUrls are the locals of the content script's fetchAllSlideUrls
\* working for it; tried lists the strategies it has started, net the
\* requests it has in flight, ops what it has done so far.
Run(pc, tabId, totalSlides) ==
  [pc |-> pc, tabId |-> tabId, totalSlides |-> totalSlides,
   documentTitle |-> "", urls |-> NullList, images |-> <<>>, i |-> 0,
   csI |-> 0, csUrls |-> <<>>, tried |-> <<>>, error |-> "",
   reply |-> [started |-> TRUE], net |-> {}, ops |-> <<>>]

Did(run, ops) == [run EXCEPT !.ops = @ \o ops]

EndedPcs == {"rejected", "done", "failed"}

\* An invocation that has returned: its locals are gone.  How it ended,
\* and what it had tried, is remembered until the next run is accepted.
Ended(run, pc, message) ==
  [Run(pc, 0, 0) EXCEPT !.tried = run.tried, !.error = message]

Forgotten(run) == IF run.pc \in EndedPcs THEN Run(run.pc, 0, 0) ELSE run

Live(r) == r \in 1..Len(runs) /\ runs[r].pc \notin EndedPcs

\* Mutant: the entry guard never finds a session.
BusyNever == FALSE

\* if (activeCapture)
Busy == ~activeCapture.null

\* Mutant: no finally block, the slot keeps the ended run's request.
ClearedSlotKept == activeCapture

\* finally { activeCapture = null }
ClearedSlot == NoCapture

\* Mutant: the sends are awaited without a catch, so a send nobody receives
\* throws into startCapture.
ContinueAwaitingSend(r, run, msgs) ==
  IF msgs # <<>> /\ ~listening
  THEN /\ runs' = [runs EXCEPT ![r] =
                    [Run("failed", 0, 0) EXCEPT !.tried = run.tried,
                                                !.error = NoReceiverMessage]]
       /\ sent' = sent \o msgs \o <<CaptureError(NoReceiverMessage)>>
       /\ activeCapture' = NoCapture
  ELSE /\ runs' = [runs EXCEPT ![r] = run]
       /\ sent' = sent \o msgs
       /\ UNCHANGED activeCapture

\* A segment of run r that ends at an await: its locals change and msgs are
\* sent towards the popup.  chrome.runtime.sendMessage(...).catch(() => {}):
\* with no popup listening the send rejects later and the rejection is
\* dropped, so the segment is the same either way.
Continue(r, run, msgs) ==
  /\ runs' = [runs EXCEPT ![r] = run]
  /\ sent' = sent \o msgs
  /\ UNCHANGED activeCapture

\* Mutant: the catch block logs the error and tells nobody.
FailSilently(r, message) ==
  /\ runs' = [runs EXCEPT ![r] = Ended(@, "failed", message)]
  /\ sent' = sent
  /\ activeCapture' = ClearedSlot

\* catch (error) { sendError(error) } finally { activeCapture = null }
Fail(r, message) ==
  /\ runs' = [runs EXCEPT ![r] = Ended(@, "failed", message)]
  /\ sent' = Append(sent, CaptureError(message))
  /\ activeCapture' = ClearedSlot

\* The strategy loop is over: sendProgressUpdate(totalSlides, totalSlides),
\* then generatePdf(imageDataArray) is awaited.
Assemble(r, run) ==
  Continue(r, Did([run EXCEPT !.pc = "awaitPdf"],
                  <<Op("progress", run.totalSlides),
                    Op("assemble", Len(run.images))>>),
           <<ProgressUpdate(run.totalSlides, run.totalSlides)>>)

\* captureViaScreenshots, up to its first await: GO_TO_SLIDE 1 is sent.
StartScreenshots(r, run) ==
  Continue(r, Did([run EXCEPT !.pc = "awaitGoto", !.urls = NullList,
                              !.images = <<>>, !.tried = Append(@, "screenshot")],
                  <<Op("goto", 1)>>),
           <<>>)

\* fetchSlideUrlsViaApi: the reply's list is taken only when it is there and
\* has totalSlides entries.
AdoptUrls(urls, totalSlides) ==
  IF ~urls.null /\ Len(urls.list) = totalSlides THEN urls ELSE NullList

\* ---------------------------------------------------------------- actions
\* Mutant: a request that finds a session reports busy and takes the slot.
StartCaptureReplacing(tabId, totalSlides) ==
  /\ listening
  /\ Len(runs) < MaxRuns
  /\ IF Busy
     THEN /\ sent' = Append(sent, CaptureError(BusyMessage))
          /\ runs' = Append(runs, Run("rejected", 0, 0))
          /\ activeCapture' = Capture(tabId, totalSlides)
     ELSE /\ activeCapture' = Capture(tabId, totalSlides)
          /\ runs' = Append([k \in 1..Len(runs) |-> Forgotten(runs[k])],
                            Run("awaitTitle", tabId, totalSlides))
          /\ sent' = <<>>
  /\ UNCHANGED <<inbox, viewport, visibleTab, probe, listening, assembler, wait, locator, lookup, download, formatter, popup>>

\* popup.js startDownload sends START_CAPTURE; onMessage START_CAPTURE:
\* startCapture(tabId, totalSlides) up to its first await, then
\* sendResponse({ started: true }).
StartCapture(tabId, totalSlides) ==
  /\ listening
  /\ Len(runs) < MaxRuns
  /\ IF Busy
     THEN /\ sent' = Append(sent, CaptureError(BusyMessage))
          /\ runs' = Append(runs, Run("rejected", 0, 0))
          /\ UNCHANGED activeCapture
     ELSE /\ activeCapture' = Capture(tabId, totalSlides)
          /\ runs' = Append([k \in 1..Len(runs) |-> Forgotten(runs[k])],
                            Run("awaitTitle", tabId, totalSlides))
          /\ sent' = <<>>
  /\ UNCHANGED <<inbox, viewport, visibleTab, probe, listening, assembler, wait, locator, lookup, download, formatter, popup>>

\* The GET_DOCUMENT_TITLE reply arrives, and FETCH_SLIDE_URLS is sent.
OnDocumentTitle(r) ==
  /\ Live(r) /\ runs[r].pc = "awaitTitle"
  /\ \E title \in Titles :
       Continue(r, [runs[r] EXCEPT
                      !.pc = "urlsRequested",
                      !.documentTitle = IF title # "" THEN title ELSE DefaultTitle,
                      !.tried = Append(@, "api")],
                <<>>)
  /\ UNCHANGED <<inbox, viewport, visibleTab, probe, listening, assembler, wait, locator, lookup, download, formatter, popup>>

\* Mutant: a title lookup that fails is taken for an empty title.
DocumentTitleRejectedDefaulting(r) ==
  /\ Live(r) /\ runs[r].pc = "awaitTitle"
  /\ Continue(r, [runs[r] EXCEPT !.pc = "urlsRequested",
                                  !.documentTitle = DefaultTitle,
                                  !.tried = Append(@, "api")],
              <<>>)
  /\ UNCHANGED <<inbox, viewport, visibleTab, probe, listening, assembler, wait, locator, lookup, download, formatter, popup>>

\* GET_DOCUMENT_TITLE cannot be delivered: sendToContentScript rejects.
DocumentTitleRejected(r) ==
  /\ Live(r) /\ runs[r].pc = "awaitTitle"
  /\ Fail(r, NoReceiverMessage)
  /\ UNCHANGED <<inbox, viewport, visibleTab, probe, listening, assembler, wait, locator, lookup, download, formatter, popup>>

\* Mutant: every page's lookup is issued before any is awaited.
CsFetchSlideUrlsAtOnce(r) ==
  /\ Live(r) /\ runs[r].pc = "urlsRequested"
  /\ IF 1 <= runs[r].totalSlides
     THEN /\ runs' = [runs EXCEPT ![r] =
                      Did([@ EXCEPT !.pc = "urlLookup", !.csI = 1, !.csUrls = <<>>,
                                    !.net = @ \cup {Request("lookup", k) :
                                                        k \in 1..runs[r].totalSlides}],
                          [k \in 1..runs[r].totalSlides |-> Op("lookup", k)])]
          /\ UNCHANGED inbox
     ELSE /\ runs' = [runs EXCEPT ![r] = [@ EXCEPT !.pc = "urlsReplied"]]
          /\ inbox' = Append(inbox, UrlsResponse(r, List(<<>>)))
  /\ UNCHANGED <<activeCapture, sent, viewport, visibleTab, probe, listening, assembler, wait, locator, lookup, download, formatter, popup>>

\* content.js onMessage FETCH_SLIDE_URLS: fetchAllSlideUrls up to its first
\* await; with no page to look up it resolves to [] and the reply goes out.
CsFetchSlideUrls(r) ==
  /\ Live(r) /\ runs[r].pc = "urlsRequested"
  /\ IF 1 <= runs[r].totalSlides
     THEN /\ runs' = [runs EXCEPT ![r] =
                      Did([@ EXCEPT !.pc = "urlLookup", !.csI = 1, !.csUrls = <<>>,
                                    !.net = @ \cup {Request("lookup", 1)}],
                          <<Op("lookup", 1)>>)]
          /\ UNCHANGED inbox
     ELSE /\ runs' = [runs EXCEPT ![r] = [@ EXCEPT !.pc = "urlsReplied"]]
          /\ inbox' = Append(inbox, UrlsResponse(r, List(<<>>)))
  /\ UNCHANGED <<activeCapture, sent, viewport, visibleTab, probe, listening, assembler, wait, locator, lookup, download, formatter, popup>>

\* FETCH_SLIDE_URLS cannot be delivered: fetchSlideUrlsViaApi catches the
\* rejection and returns null, and startCapture falls back.
FetchSlideUrlsRejected(r) ==
  /\ Live(r) /\ runs[r].pc = "urlsRequested"
  /\ StartScreenshots(r, runs[r])
  /\ UNCHANGED <<inbox, viewport, visibleTab, probe, listening, assembler, wait, locator, lookup, download, formatter, popup>>

\* Mutant: a page without a URL is left out and the loop goes on.
CsPageDataSkipping(r) ==
  /\ Live(r) /\ runs[r].pc = "urlLookup"
  /\ Request("lookup", runs[r].csI) \in runs[r].net
  /\ \E data \in PageDataReplies :
       LET run == [runs[r] EXCEPT !.net = @ \ {Request("lookup", runs[r].csI)}]
           url == FetchSlideImageUrl(data, run.csI)
           urls == Append(run.csUrls, url)
           progress == FetchProgress(run.csI, run.totalSlides)
       IN  IF url # NoUrl
           THEN IF run.csI + 1 <= run.totalSlides
                THEN /\ runs' = [runs EXCEPT ![r] =
                                 Did([run EXCEPT
                                        !.csI = @ + 1, !.csUrls = urls,
                                        !.net = @ \cup {Request("lookup", run.csI + 1)}],
                                     <<Op("lookup", run.csI + 1)>>)]
                     /\ inbox' = Append(inbox, progress)
                ELSE /\ runs' = [runs EXCEPT ![r] = [run EXCEPT !.pc = "urlsReplied",
                                                                !.csI = @ + 1,
                                                                !.csUrls = urls]]
                     /\ inbox' = inbox \o <<progress, UrlsResponse(r, List(urls))>>
           ELSE IF run.csI + 1 <= run.totalSlides
                THEN /\ runs' = [runs EXCEPT ![r] =
                                 Did([run EXCEPT
                                        !.csI = @ + 1,
                                        !.net = @ \cup {Request("lookup", run.csI + 1)}],
                                     <<Op("lookup", run.csI + 1)>>)]
                     /\ UNCHANGED inbox
                ELSE /\ runs' = [runs EXCEPT ![r] = [run EXCEPT !.pc = "urlsReplied"]]
                     /\ inbox' = Append(inbox, UrlsResponse(r, List(run.csUrls)))
  /\ UNCHANGED <<activeCapture, sent, viewport, visibleTab, probe, listening, assembler, wait, locator, lookup, download, formatter, popup>>

\* Mutant: after the last page the list is sent back before the progress
\* report for that page.
CsPageDataReplyingFirst(r) ==
  /\ Live(r) /\ runs[r].pc = "urlLookup"
  /\ Request("lookup", runs[r].csI) \in runs[r].net
  /\ \E data \in PageDataReplies :
       LET run == [runs[r] EXCEPT !.net = @ \ {Request("lookup", runs[r].csI)}]
           url == FetchSlideImageUrl(data, run.csI)
           urls == Append(run.csUrls, url)
           progress == FetchProgress(run.csI, run.totalSlides)
       IN  IF url # NoUrl
           THEN IF run.csI + 1 <= run.totalSlides
                THEN /\ runs' = [runs EXCEPT ![r] =
                                 Did([run EXCEPT
                                        !.csI = @ + 1, !.csUrls = urls,
                                        !.net = @ \cup {Request("lookup", run.csI + 1)}],
                                     <<Op("lookup", run.csI + 1)>>)]
                     /\ inbox' = Append(inbox, progress)
                ELSE /\ runs' = [runs EXCEPT ![r] = [run EXCEPT !.pc = "urlsReplied",
                                                                !.csI = @ + 1,
                                                                !.csUrls = urls]]
                     /\ inbox' = inbox \o <<UrlsResponse(r, List(urls)), progress>>
           ELSE /\ runs' = [runs EXCEPT ![r] = [run EXCEPT !.pc = "urlsReplied"]]
                /\ inbox' = Append(inbox, UrlsResponse(r, NullList))
  /\ UNCHANGED <<activeCapture, sent, viewport, visibleTab, probe, listening, assembler, wait, locator, lookup, download, formatter, popup>>

\* content.js: the page_data request for page csI settles.  A URL is pushed,
\* progress is reported and the loop goes on or returns the list; no URL
\* makes fetchAllSlideUrls return null.
CsPageData(r) ==
  /\ Live(r) /\ runs[r].pc = "urlLookup"
  /\ Request("lookup", runs[r].csI) \in runs[r].net
  /\ \E data \in PageDataReplies :
       LET run == [runs[r] EXCEPT !.net = @ \ {Request("lookup", runs[r].csI)}]
           url == FetchSlideImageUrl(data, run.csI)
           urls == Append(run.csUrls, url)
           progress == FetchProgress(run.csI, run.totalSlides)
       IN  IF url # NoUrl
           THEN IF run.csI + 1 <= run.totalSlides
                THEN /\ runs' = [runs EXCEPT ![r] =
                                 Did([run EXCEPT
                                        !.csI = @ + 1, !.csUrls = urls,
                                        !.net = @ \cup {Request("lookup", run.csI + 1)}],
                                     <<Op("lookup", run.csI + 1)>>)]
                     /\ inbox' = Append(inbox, progress)
                ELSE /\ runs' = [runs EXCEPT ![r] = [run EXCEPT !.pc = "urlsReplied",
                                                                !.csI = @ + 1,
                                                                !.csUrls = urls]]
                     /\ inbox' = inbox \o <<progress, UrlsResponse(r, List(urls))>>
           ELSE /\ runs' = [runs EXCEPT ![r] = [run EXCEPT !.pc = "urlsReplied"]]
                /\ inbox' = Append(inbox, UrlsResponse(r, NullList))
  /\ UNCHANGED <<activeCapture, sent, viewport, visibleTab, probe, listening, assembler, wait, locator, lookup, download, formatter, popup>>

\* onMessage FETCH_PROGRESS: forwarded to the popup.
OnFetchProgress ==
  /\ inbox # <<>> /\ Head(inbox).type = "FETCH_PROGRESS"
  /\ sent' = Append(sent, ProgressUpdate(Head(inbox).current, Head(inbox).total))
  /\ inbox' = Tail(inbox)
  /\ UNCHANGED <<activeCapture, runs, viewport, visibleTab, probe, listening, assembler, wait, locator, lookup, download, formatter, popup>>

\* The FETCH_SLIDE_URLS reply arrives.  With a list, fetchImagesFromUrls
\* runs up to its first await; without one, captureViaScreenshots does.
OnSlideUrls(r) ==
  /\ Live(r) /\ runs[r].pc = "urlsReplied"
  /\ inbox # <<>> /\ Head(inbox).type = "URLS_RESPONSE" /\ Head(inbox).run = r
  /\ inbox' = Tail(inbox)
  /\ LET run == runs[r]
         urls == AdoptUrls(Head(inbox).urls, run.totalSlides)
     IN  IF urls.null
         THEN StartScreenshots(r, run)
         ELSE IF 0 < Len(urls.list)
              THEN Continue(r, Did([run EXCEPT !.pc = "fetching", !.urls = urls,
                                               !.i = 0,
                                               !.net = @ \cup {Request("fetch", 1)}],
                                   <<Op("progress", 1), Op("fetch", 1)>>),
                            <<ProgressUpdate(1, Len(urls.list))>>)
              ELSE Assemble(r, [run EXCEPT !.urls = urls])
  /\ UNCHANGED <<viewport, visibleTab, probe, listening, assembler, wait, locator, lookup, download, formatter, popup>>

\* Mutant: when a byte fetch throws, the screenshots are taken on top of the
\* images fetched so far.
OnImageFallingBack(r) ==
  /\ Live(r) /\ runs[r].pc = "fetching"
  /\ Request("fetch", runs[r].i + 1) \in runs[r].net
  /\ LET run == [runs[r] EXCEPT !.net = @ \ {Request("fetch", runs[r].i + 1)}]
         n == Len(run.urls.list)
     IN  \E f \in FetchImageWithRetry :
           IF f.st = "threw"
           THEN Continue(r, Did([run EXCEPT !.pc = "awaitGoto", !.urls = NullList,
                                            !.tried = Append(@, "screenshot")],
                                <<Op("goto", 1)>>),
                         <<>>)
           ELSE LET url == run.urls.list[run.i + 1]
                    next == [run EXCEPT !.images = Append(@, ApiImage(url, f.result)),
                                        !.i = @ + 1]
                IN  IF next.i < n
                    THEN Continue(r, Did([next EXCEPT
                                            !.net = @ \cup {Request("fetch", next.i + 1)}],
                                         <<Op("progress", next.i + 1),
                                           Op("fetch", next.i + 1)>>),
                                  <<ProgressUpdate(next.i + 1, n)>>)
                    ELSE Assemble(r, next)
  /\ UNCHANGED <<inbox, viewport, visibleTab, probe, listening, assembler, wait, locator, lookup, download, formatter, popup>>

\* Mutant: each image goes to the front of the array.
OnImagePrepending(r) ==
  /\ Live(r) /\ runs[r].pc = "fetching"
  /\ Request("fetch", runs[r].i + 1) \in runs[r].net
  /\ LET run == [runs[r] EXCEPT !.net = @ \ {Request("fetch", runs[r].i + 1)}]
         n == Len(run.urls.list)
     IN  \E f \in FetchImageWithRetry :
           IF f.st = "threw"
           THEN Fail(r, f.error)
           ELSE LET url == run.urls.list[run.i + 1]
                    next == [run EXCEPT !.images = <<ApiImage(url, f.result)>> \o @,
                                        !.i = @ + 1]
                IN  IF next.i < n
                    THEN Continue(r, Did([next EXCEPT
                                            !.net = @ \cup {Request("fetch", next.i + 1)}],
                                         <<Op("progress", next.i + 1),
                                           Op("fetch", next.i + 1)>>),
                                  <<ProgressUpdate(next.i + 1, n)>>)
                    ELSE Assemble(r, next)
  /\ UNCHANGED <<inbox, viewport, visibleTab, probe, listening, assembler, wait, locator, lookup, download, formatter, popup>>

\* fetchImagesFromUrls: fetchImageWithRetry(urls[i]) settles.  A value is
\* pushed and the loop goes on or returns; an exception leaves startCapture
\* through its catch.
OnImage(r) ==
  /\ Live(r) /\ runs[r].pc = "fetching"
  /\ Request("fetch", runs[r].i + 1) \in runs[r].net
  /\ LET run == [runs[r] EXCEPT !.net = @ \ {Request("fetch", runs[r].i + 1)}]
         n == Len(run.urls.list)
     IN  \E f \in FetchImageWithRetry :
           IF f.st = "threw"
           THEN Fail(r, f.error)
           ELSE LET url == run.urls.list[run.i + 1]
                    next == [run EXCEPT !.images = Append(@, ApiImage(url, f.result)),
                                        !.i = @ + 1]
                IN  IF next.i < n
                    THEN Continue(r, Did([next EXCEPT
                                            !.net = @ \cup {Request("fetch", next.i + 1)}],
                                         <<Op("progress", next.i + 1),
                                           Op("fetch", next.i + 1)>>),
                                  <<ProgressUpdate(next.i + 1, n)>>)
                    ELSE Assemble(r, next)
  /\ UNCHANGED <<inbox, viewport, visibleTab, probe, listening, assembler, wait, locator, lookup, download, formatter, popup>>

\* Mutant: the screenshot loop starts on whatever page the viewer shows.
OnGoToSlideStaying(r) ==
  /\ Live(r) /\ runs[r].pc = "awaitGoto"
  /\ Continue(r, Did([runs[r] EXCEPT !.pc = "delayFirst"],
                      <<Op("loaded", 0), Op("delay", SlideTransitionDelay)>>),
              <<>>)
  /\ UNCHANGED <<inbox, viewport, visibleTab, probe, listening, assembler, wait, locator, lookup, download, formatter, popup>>

\* content.js onMessage GO_TO_SLIDE: goToSlide(1), waitForSlideLoad, reply;
\* the service worker then awaits delay(slideTransitionDelay).
OnGoToSlide(r) ==
  /\ Live(r) /\ runs[r].pc = "awaitGoto"
  /\ viewport' = [viewport EXCEPT ![runs[r].tabId] = 1]
  /\ Continue(r, Did([runs[r] EXCEPT !.pc = "delayFirst"],
                      <<Op("loaded", 0), Op("delay", SlideTransitionDelay)>>),
              <<>>)
  /\ UNCHANGED <<inbox, visibleTab, probe, listening, assembler, wait, locator, lookup, download, formatter, popup>>

GoToSlideRejected(r) ==
  /\ Live(r) /\ runs[r].pc = "awaitGoto"
  /\ Fail(r, NoReceiverMessage)
  /\ UNCHANGED <<inbox, viewport, visibleTab, probe, listening, assembler, wait, locator, lookup, download, formatter, popup>>

\* The first delay elapses: the loop starts with i = 1, reports progress and
\* awaits captureScreenshot; with no slide it returns [].
FirstDelayElapsed(r) ==
  /\ Live(r) /\ runs[r].pc = "delayFirst"
  /\ IF 1 <= runs[r].totalSlides
     THEN Continue(r, Did([runs[r] EXCEPT !.pc = "awaitShot", !.i = 1],
                          <<Op("progress", 1), Op("capture", 1)>>),
                   <<ProgressUpdate(1, runs[r].totalSlides)>>)
     ELSE Assemble(r, runs[r])
  /\ UNCHANGED <<inbox, viewport, visibleTab, probe, listening, assembler, wait, locator, lookup, download, formatter, popup>>

\* captureVisibleTab calls back with a data URL: the screenshot is pushed,
\* then GO_TO_NEXT_SLIDE is sent or the loop ends.
OnScreenshot(r) ==
  /\ Live(r) /\ runs[r].pc = "awaitShot"
  /\ LET run == [runs[r] EXCEPT !.images = Append(@, Screenshot)]
     IN  IF run.i < run.totalSlides
         THEN Continue(r, Did([run EXCEPT !.pc = "awaitNext"], <<Op("next", 0)>>),
                       <<>>)
         ELSE Assemble(r, run)
  /\ UNCHANGED <<inbox, viewport, visibleTab, probe, listening, assembler, wait, locator, lookup, download, formatter, popup>>

\* Mutant: a failed capture starts the screenshot strategy over.
ScreenshotRejectedRetrying(r) ==
  /\ Live(r) /\ runs[r].pc = "awaitShot"
  /\ Len(runs[r].tried) < 3
  /\ StartScreenshots(r, runs[r])
  /\ UNCHANGED <<inbox, viewport, visibleTab, probe, listening, assembler, wait, locator, lookup, download, formatter, popup>>

\* captureVisibleTab sets chrome.runtime.lastError.
ScreenshotRejected(r) ==
  /\ Live(r) /\ runs[r].pc = "awaitShot"
  /\ Fail(r, CaptureFailedMessage)
  /\ UNCHANGED <<inbox, viewport, visibleTab, probe, listening, assembler, wait, locator, lookup, download, formatter, popup>>

\* content.js onMessage GO_TO_NEXT_SLIDE: goToNextSlide, waitForSlideLoad,
\* reply; the viewer moves on one page unless it shows the last one.
OnNextSlide(r) ==
  /\ Live(r) /\ runs[r].pc = "awaitNext"
  /\ viewport' = [viewport EXCEPT ![runs[r].tabId] =
                    IF @ < MaxSlides THEN @ + 1 ELSE @]
  /\ Continue(r, Did([runs[r] EXCEPT !.pc = "delayTransition"],
                      <<Op("loaded", 0), Op("delay", SlideTransitionDelay)>>),
              <<>>)
  /\ UNCHANGED <<inbox, visibleTab, probe, listening, assembler, wait, locator, lookup, download, formatter, popup>>

NextSlideRejected(r) ==
  /\ Live(r) /\ runs[r].pc = "awaitNext"
  /\ Fail(r, NoReceiverMessage)
  /\ UNCHANGED <<inbox, viewport, visibleTab, probe, listening, assembler, wait, locator, lookup, download, formatter, popup>>

\* Mutant: no cooldown between the settle delay and the next capture.
TransitionDelayElapsedNoCooldown(r) ==
  /\ Live(r) /\ runs[r].pc = "delayTransition"
  /\ Continue(r, Did([runs[r] EXCEPT !.pc = "awaitShot", !.i = @ + 1],
                      <<Op("progress", runs[r].i + 1), Op("capture", runs[r].i + 1)>>),
              <<ProgressUpdate(runs[r].i + 1, runs[r].totalSlides)>>)
  /\ UNCHANGED <<inbox, viewport, visibleTab, probe, listening, assembler, wait, locator, lookup, download, formatter, popup>>

\* delay(TIMING.slideTransitionDelay) elapses; delay(screenshotCooldown) starts.
TransitionDelayElapsed(r) ==
  /\ Live(r) /\ runs[r].pc = "delayTransition"
  /\ Continue(r, Did([runs[r] EXCEPT !.pc = "delayCooldown"],
                      <<Op("delay", ScreenshotCooldown)>>),
              <<>>)
  /\ UNCHANGED <<inbox, viewport, visibleTab, probe, listening, assembler, wait, locator, lookup, download, formatter, popup>>

\* Mutant: the loop reports progress for its first page only.
CooldownElapsedSilent(r) ==
  /\ Live(r) /\ runs[r].pc = "delayCooldown"
  /\ Continue(r, Did([runs[r] EXCEPT !.pc = "awaitShot", !.i = @ + 1],
                      <<Op("capture", runs[r].i + 1)>>),
              <<>>)
  /\ UNCHANGED <<inbox, viewport, visibleTab, probe, listening, assembler, wait, locator, lookup, download, formatter, popup>>

\* The cooldown elapses: i++, progress, captureScreenshot.
CooldownElapsed(r) ==
  /\ Live(r) /\ runs[r].pc = "delayCooldown"
  /\ Continue(r, Did([runs[r] EXCEPT !.pc = "awaitShot", !.i = @ + 1],
                      <<Op("progress", runs[r].i + 1), Op("capture", runs[r].i + 1)>>),
              <<ProgressUpdate(runs[r].i + 1, runs[r].totalSlides)>>)
  /\ UNCHANGED <<inbox, viewport, visibleTab, probe, listening, assembler, wait, locator, lookup, download, formatter, popup>>

\* Mutant: generatePdf resolves and startCapture goes on to nothing: no
\* download, no end.
OnPdfStalling(r) ==
  /\ Live(r) /\ runs[r].pc = "awaitPdf"
  /\ \A k \in 1..Len(runs[r].images) : runs[r].images[k].kind = "bytes"
  /\ Continue(r, [runs[r] EXCEPT !.pc = "stalled"], <<>>)
  /\ UNCHANGED <<inbox, viewport, visibleTab, probe, listening, assembler, wait, locator, lookup, download, formatter, popup>>

\* generatePdf resolves; downloadPdf is awaited.
OnPdf(r) ==
  /\ Live(r) /\ runs[r].pc = "awaitPdf"
  /\ \A k \in 1..Len(runs[r].images) : runs[r].images[k].kind = "bytes"
  /\ Continue(r, [runs[r] EXCEPT !.pc = "awaitDownload"], <<>>)
  /\ UNCHANGED <<inbox, viewport, visibleTab, probe, listening, assembler, wait, locator, lookup, download, formatter, popup>>

\* generatePdf rejects: embedJpg(undefined) always does, and either
\* embedder may on bytes it cannot parse.  With no image nothing is embedded
\* and nothing rejects.
PdfRejected(r) ==
  /\ Live(r) /\ runs[r].pc = "awaitPdf"
  /\ runs[r].images # <<>>
  /\ IF \E k \in 1..Len(runs[r].images) : runs[r].images[k].kind # "bytes"
     THEN Fail(r, EmbedTypeErrorMessage)
     ELSE Fail(r, EmbedParseErrorMessage)
  /\ UNCHANGED <<inbox, viewport, visibleTab, probe, listening, assembler, wait, locator, lookup, download, formatter, popup>>

\* chrome.downloads.download resolves: sendComplete(), finally.
OnDownload(r) ==
  /\ Live(r) /\ runs[r].pc = "awaitDownload"
  /\ runs' = [runs EXCEPT ![r] = Ended(@, "done", "")]
  /\ sent' = Append(sent, CaptureComplete)
  /\ activeCapture' = ClearedSlot
  /\ UNCHANGED <<inbox, viewport, visibleTab, probe, listening, assembler, wait, locator, lookup, download, formatter, popup>>

DownloadRejected(r) ==
  /\ Live(r) /\ runs[r].pc = "awaitDownload"
  /\ Fail(r, DownloadFailedMessage)
  /\ UNCHANGED <<inbox, viewport, visibleTab, probe, listening, assembler, wait, locator, lookup, download, formatter, popup>>

\* The user brings another tab of the window to the front.
ActivateTab(t) ==
  /\ visibleTab # t
  /\ visibleTab' = t
  /\ UNCHANGED <<activeCapture, runs, inbox, sent, viewport, probe, listening, assembler, wait, locator, lookup, download, formatter, popup>>

\* popup.js is loaded when the user opens the popup, and registers its
\* onMessage listener; closing the popup unloads it.
PopupOpened ==
  /\ ~listening
  /\ listening' = TRUE
  /\ UNCHANGED <<activeCapture, runs, inbox, sent, viewport, visibleTab, probe,
                 assembler, wait, locator, lookup, download, formatter, popup>>

PopupClosed ==
  /\ listening
  /\ listening' = FALSE
  /\ UNCHANGED <<activeCapture, runs, inbox, sent, viewport, visibleTab, probe,
                 assembler, wait, locator, lookup, download, formatter, popup>>

\* ------------------------------------------------------ stand-alone call
IdleCall == FetchStart(0)

ProbeResponse ==
  /\ probe.st = "pending"
  /\ \E resp \in Responses : probe' = FetchOnResponse(probe, resp)
  /\ UNCHANGED <<activeCapture, runs, inbox, sent, viewport, visibleTab, listening,
               assembler, wait, locator, lookup, download, formatter, popup>>

ProbeBody ==
  /\ probe.st = "body"
  /\ \E complete \in BOOLEAN : probe' = FetchOnBody(probe, complete)
  /\ UNCHANGED <<activeCapture, runs, inbox, sent, viewport, visibleTab, listening,
               assembler, wait, locator, lookup, download, formatter, popup>>

ProbeTimer ==
  /\ probe.st = "delay"
  /\ probe' = FetchOnTimer(probe)
  /\ UNCHANGED <<activeCapture, runs, inbox, sent, viewport, visibleTab, listening,
               assembler, wait, locator, lookup, download, formatter, popup>>

\* ------------------------------------------------------------ generatePdf
\* Image data as generatePdf sees it: head holds its first bytes, format is
\* what the bytes decode as ("none": they do not decode; "undefined": there
\* are no bytes, the value is undefined), width and height are the decoded
\* picture's pixel dimensions.
PngSignature == <<137, 80, 78, 71>>

JpegStart == <<255, 216, 255, 224>>

Sizes == {<<800, 600>>, <<1024, 768>>}

Png(size) ==
  [head |-> PngSignature, format |-> "png", width |-> size[1], height |-> size[2]]

Jpeg(size) ==
  [head |-> JpegStart, format |-> "jpeg", width |-> size[1], height |-> size[2]]

\* Bytes that start like a PNG and are none, bytes too few to tell, and the
\* undefined a byte fetch may have returned.
BrokenPng == [head |-> PngSignature, format |-> "none", width |-> 0, height |-> 0]

ShortData == [head |-> <<137, 80, 78>>, format |-> "none", width |-> 0, height |-> 0]

UndefinedData == [head |-> <<>>, format |-> "undefined", width |-> 0, height |-> 0]

ImageData ==
  {Png(size) : size \in Sizes} \cup {Jpeg(size) : size \in Sizes}
    \cup {BrokenPng, ShortData, UndefinedData}

\* Mutant: the first three bytes decide.
HasPngSignatureThreeBytes(imageData) ==
  /\ Len(imageData.head) >= 3
  /\ \A k \in 1..3 : imageData.head[k] = PngSignature[k]

\* bytes[0] === 0x89 && bytes[1] === 0x50 && bytes[2] === 0x4E && bytes[3] === 0x47
\* on new Uint8Array(imageData): an index past the end reads undefined.
HasPngSignature(imageData) ==
  /\ Len(imageData.head) >= 4
  /\ \A k \in 1..4 : imageData.head[k] = PngSignature[k]

SelectEmbedder(imageData) ==
  IF HasPngSignature(imageData) THEN "embedPng" ELSE "embedJpg"

PngParseErrorMessage == "Input is not a PNG file"

\* What awaiting pdfDoc.embedPng / embedJpg on imageData gives: the embedded
\* image with the picture's dimensions, or a rejection.
Embed(embedder, imageData) ==
  CASE imageData.format = "undefined" ->
         [ok |-> FALSE, error |-> EmbedTypeErrorMessage, width |-> 0, height |-> 0]
    [] imageData.format = "png" /\ embedder = "embedPng" ->
         [ok |-> TRUE, error |-> "", width |-> imageData.width,
          height |-> imageData.height]
    [] imageData.format = "jpeg" /\ embedder = "embedJpg" ->
         [ok |-> TRUE, error |-> "", width |-> imageData.width,
          height |-> imageData.height]
    [] OTHER ->
         [ok |-> FALSE,
          error |-> IF embedder = "embedPng" THEN PngParseErrorMessage
                    ELSE EmbedParseErrorMessage,
          width |-> 0, height |-> 0]

\* One generatePdf call: st is where it stands (creating: awaiting
\* PDFDocument.create; embedding: awaiting the embedder chosen for image k;
\* saving: awaiting pdfDoc.save; returned; threw), chosen the embedder
\* called for each image so far, pages the pages added to pdfDoc.
GeneratePdfStart(imageDataArray) ==
  [st |-> "creating", images |-> imageDataArray, k |-> 0, chosen |-> <<>>,
   pages |-> <<>>, error |-> ""]

NoAssembly == [GeneratePdfStart(<<>>) EXCEPT !.st = "idle"]

\* The for-of loop takes the next image and awaits its embedder, or is over
\* and pdfDoc.save() is awaited.
PdfNextImage(a) ==
  IF a.k < Len(a.images)
  THEN [a EXCEPT !.st = "embedding", !.k = @ + 1,
                 !.chosen = Append(@, SelectEmbedder(a.images[a.k + 1]))]
  ELSE [a EXCEPT !.st = "saving"]

\* Mutant: every page is as large as the first image.
PdfAddPageUniform(a, image) ==
  LET first == IF a.pages = <<>> THEN image
               ELSE [width |-> a.pages[1].width, height |-> a.pages[1].height]
  IN  [a EXCEPT !.pages = Append(@,
         [width |-> first.width, height |-> first.height,
          image |-> a.k, x |-> 0, y |-> 0,
          drawWidth |-> image.width, drawHeight |-> image.height])]

\* pdfDoc.addPage([image.width, image.height]) and
\* page.drawImage(image, { x: 0, y: 0, width: image.width, height: image.height })
PdfAddPage(a, image) ==
  [a EXCEPT !.pages = Append(@,
     [width |-> image.width, height |-> image.height,
      image |-> a.k, x |-> 0, y |-> 0,
      drawWidth |-> image.width, drawHeight |-> image.height])]

\* The embedder settles: the page is added and the loop goes on, or the
\* rejection leaves generatePdf.
PdfOnEmbedded(a) ==
  LET image == Embed(a.chosen[a.k], a.images[a.k])
  IN  IF image.ok THEN PdfNextImage(PdfAddPage(a, image))
      ELSE [a EXCEPT !.st = "threw", !.error = image.error]

PdfOnSaved(a) == [a EXCEPT !.st = "returned"]

AssemblerCreated ==
  /\ assembler.st = "creating"
  /\ assembler' = PdfNextImage(assembler)
  /\ UNCHANGED <<activeCapture, runs, inbox, sent, viewport, visibleTab, probe,
                 listening, wait, locator, lookup, download, formatter, popup>>

AssemblerEmbedded ==
  /\ assembler.st = "embedding"
  /\ assembler' = PdfOnEmbedded(assembler)
  /\ UNCHANGED <<activeCapture, runs, inbox, sent, viewport, visibleTab, probe,
                 listening, wait, locator, lookup, download, formatter, popup>>

AssemblerSaved ==
  /\ assembler.st = "saving"
  /\ assembler' = PdfOnSaved(assembler)
  /\ UNCHANGED <<activeCapture, runs, inbox, sent, viewport, visibleTab, probe,
                 listening, wait, locator, lookup, download, formatter, popup>>

\* ------------------------------------------------------- waitForSlideLoad
\* One GO_TO_SLIDE / GO_TO_NEXT_SLIDE handler of content.js from the call of
\* waitForSlideLoad on.  Of the page it sees loader (a loading indicator is
\* there and shown) and img (the slide's image element: none, loading or
\* complete).  fallback and short are the two timeouts while pending, frame a
\* pending requestAnimationFrame(checkLoaded), onload the once-only load
\* listener; resolved tells whether the promise is settled and by what;
\* replied whether sendResponse({ success: true }) has run.
FallbackTimeoutMs == 2000
ImageTimeoutMs == 500

Signals == {"GO_TO_SLIDE", "GO_TO_NEXT_SLIDE"}

NoWait ==
  [signal |-> "", loader |-> FALSE, img |-> "none", fallback |-> FALSE,
   short |-> FALSE, frame |-> FALSE, onload |-> FALSE, resolved |-> FALSE,
   by |-> "", replied |-> FALSE]

\* resolve(): settles the promise the first time it is called.
Resolve(w, by) ==
  IF w.resolved THEN w ELSE [w EXCEPT !.resolved = TRUE, !.by = by]

\* checkLoaded
CheckLoaded(w) ==
  IF ~w.loader
  THEN IF w.img # "none"
       THEN IF w.img = "complete" THEN Resolve(w, "complete")
            ELSE [w EXCEPT !.onload = TRUE, !.short = TRUE]
       ELSE Resolve(w, "no image")
  ELSE [w EXCEPT !.frame = TRUE]

\* Mutant: no fallback timeout around the polling.
WaitForSlideLoadUnbounded(signal, loader, img) ==
  CheckLoaded([NoWait EXCEPT !.signal = signal, !.loader = loader, !.img = img])

\* waitForSlideLoad: setTimeout(resolve, 2000); checkLoaded()
WaitForSlideLoad(signal, loader, img) ==
  CheckLoaded([NoWait EXCEPT !.signal = signal, !.loader = loader, !.img = img,
                             !.fallback = TRUE])

WaitFrame ==
  /\ wait.frame
  /\ wait' = CheckLoaded([wait EXCEPT !.frame = FALSE])
  /\ UNCHANGED <<activeCapture, runs, inbox, sent, viewport, visibleTab, probe,
                 listening, assembler, locator, lookup, download, formatter, popup>>

\* setTimeout(resolve, 500)
WaitImageTimeout ==
  /\ wait.short
  /\ wait' = Resolve([wait EXCEPT !.short = FALSE], "image timeout")
  /\ UNCHANGED <<activeCapture, runs, inbox, sent, viewport, visibleTab, probe,
                 listening, assembler, locator, lookup, download, formatter, popup>>

\* setTimeout(resolve, 2000)
WaitFallbackTimeout ==
  /\ wait.fallback
  /\ wait' = Resolve([wait EXCEPT !.fallback = FALSE], "fallback timeout")
  /\ UNCHANGED <<activeCapture, runs, inbox, sent, viewport, visibleTab, probe,
                 listening, assembler, locator, lookup, download, formatter, popup>>

\* The page: the image finishes loading (and the load listener, if attached,
\* runs once), an image element appears, the indicator comes and goes.
WaitImageLoaded ==
  /\ wait.signal # "" /\ wait.img = "loading"
  /\ wait' = IF wait.onload
             THEN Resolve([wait EXCEPT !.img = "complete", !.onload = FALSE], "load")
             ELSE [wait EXCEPT !.img = "complete"]
  /\ UNCHANGED <<activeCapture, runs, inbox, sent, viewport, visibleTab, probe,
                 listening, assembler, locator, lookup, download, formatter, popup>>

WaitImageInserted ==
  /\ wait.signal # "" /\ wait.img = "none"
  /\ wait' = [wait EXCEPT !.img = "loading"]
  /\ UNCHANGED <<activeCapture, runs, inbox, sent, viewport, visibleTab, probe,
                 listening, assembler, locator, lookup, download, formatter, popup>>

WaitLoaderToggled ==
  /\ wait.signal # ""
  /\ wait' = [wait EXCEPT !.loader = ~@]
  /\ UNCHANGED <<activeCapture, runs, inbox, sent, viewport, visibleTab, probe,
                 listening, assembler, locator, lookup, download, formatter, popup>>

\* waitForSlideLoad().then(() => { sendResponse({ success: true }) })
WaitReplied ==
  /\ wait.resolved /\ ~wait.replied
  /\ wait' = [wait EXCEPT !.replied = TRUE]
  /\ UNCHANGED <<activeCapture, runs, inbox, sent, viewport, visibleTab, probe,
                 listening, assembler, locator, lookup, download, formatter, popup>>

\* ----------------------------------------------------------- slide info
\* content.js: the GET_SLIDE_INFO handler with getSlideInfo and
\* isAuthRequired, one action per element the handler reads from the
\* document.  The document is read as the handler goes: an action draws what
\* its querySelector, querySelectorAll or innerText finds.

\* pageLabelSelectors, thumbnailSelectors, gateSelectors: how many entries.
LabelSelectors == 9
ThumbnailSelectors == 6
GateSelectors == 5
\* Method 2's sanity check: total <= 500.
MaxTotal == 500

\* The most elements a thumbnail selector matches, and the most inline
\* scripts of a page: bounds of the model.
MaxThumbnails == 3
MaxScripts == 2

\* What one read finds.  current, total: the digit groups of a text that
\* matches the reader's pattern (both empty when it does not match; a script
\* has only a total); count: how many elements a selector matches; display,
\* visibility, height: the element's computed style and bounding box.
NoElement ==
  [kind |-> "none", present |-> FALSE, current |-> <<>>, total |-> <<>>,
   count |-> 0, display |-> "", visibility |-> "", height |-> 0]

Elements(kind) ==
  LET numerals == {<<"0">>, <<"1">>, <<"2">>, <<"5", "0", "0">>, <<"5", "0", "1">>}
      found == [NoElement EXCEPT !.kind = kind, !.present = TRUE]
      matches == {[found EXCEPT !.current = c, !.total = t] :
                    c \in numerals, t \in numerals}
  IN  CASE kind = "label" ->
             {[NoElement EXCEPT !.kind = kind], found} \cup matches
        [] kind = "text" -> {found} \cup matches
        [] kind = "thumbnails" ->
             {[found EXCEPT !.count = n] : n \in 0..MaxThumbnails}
        [] kind = "script" ->
             {[NoElement EXCEPT !.kind = kind], found}
               \cup {[found EXCEPT !.total = t] : t \in numerals}
        [] kind \in {"email", "gate"} ->
             {[NoElement EXCEPT !.kind = kind]}
               \cup {[found EXCEPT !.display = d, !.visibility = v, !.height = h] :
                       d \in {"none", "block"}, v \in {"hidden", "visible"},
                       h \in {0, 20}}

\* What getSlideInfo returns: null (method 0 here) or {current, total}; the
\* method that produced it is kept beside it.
SlideInfo(current, total, method) ==
  [current |-> current, total |-> total, method |-> method]

NoSlideInfo == SlideInfo(0, 0, 0)

\* The handler before a request: st is the reader that runs next, k its
\* position in its list of selectors (or scripts), last the element read
\* last, failed the methods that ran to their end without a result.
NoPage ==
  [st |-> "idle", k |-> 1, last |-> NoElement, failed |-> {},
   slideInfo |-> NoSlideInfo,
   response |-> [type |-> "none", currentSlide |-> 0, totalSlides |-> 0]]

\* One read of getSlideInfo done: with a result the function returns and the
\* handler sends it; without one the loop goes on (more) or the next method
\* starts.
Examine(p, el, info, method, more, next) ==
  IF info.method # 0
  THEN [p EXCEPT !.st = "replied", !.last = el, !.slideInfo = info,
                 !.response = [type |-> "slideInfo",
                               currentSlide |-> info.current,
                               totalSlides |-> info.total]]
  ELSE IF more THEN [p EXCEPT !.k = @ + 1, !.last = el]
  ELSE [p EXCEPT !.st = next, !.k = 1, !.last = el, !.failed = @ \cup {method}]

\* chrome.runtime.onMessage: a GET_SLIDE_INFO message arrives.
OnGetSlideInfo ==
  /\ locator.st = "idle"
  /\ locator' = [locator EXCEPT !.st = "labels"]
  /\ UNCHANGED <<activeCapture, runs, inbox, sent, viewport, visibleTab, probe,
                 listening, assembler, wait, lookup, download, formatter, popup>>

\* Mutant: after the labels Method 3 runs, Method 2 is skipped.
PageLabelSkippingText ==
  /\ locator.st = "labels"
  /\ \E el \in Elements("label") :
       locator' = Examine(locator, el,
                       IF el.present /\ el.current # <<>>
                       THEN SlideInfo(ParseInt(el.current).v, ParseInt(el.total).v, 1)
                       ELSE NoSlideInfo,
                       1, locator.k < LabelSelectors, "thumbnails")
  /\ UNCHANGED <<activeCapture, runs, inbox, sent, viewport, visibleTab, probe,
                 listening, assembler, wait, lookup, download, formatter, popup>>

\* Method 1, one selector: the first element it matches, its text against
\* the label pattern; any two numbers are a result.
PageLabel ==
  /\ locator.st = "labels"
  /\ \E el \in Elements("label") :
       locator' = Examine(locator, el,
                       IF el.present /\ el.current # <<>>
                       THEN SlideInfo(ParseInt(el.current).v, ParseInt(el.total).v, 1)
                       ELSE NoSlideInfo,
                       1, locator.k < LabelSelectors, "text")
  /\ UNCHANGED <<activeCapture, runs, inbox, sent, viewport, visibleTab, probe,
                 listening, assembler, wait, lookup, download, formatter, popup>>

\* Mutant: no upper limit on total.
BodyTextUnbounded ==
  /\ locator.st = "text"
  /\ \E el \in Elements("text") :
       LET current == ParseInt(el.current)
           total == ParseInt(el.total)
       IN  locator' = Examine(locator, el,
                           IF /\ el.current # <<>>
                              /\ total.v >= 1
                              /\ current.v >= 1 /\ current.v <= total.v
                           THEN SlideInfo(current.v, total.v, 2)
                           ELSE NoSlideInfo,
                           2, FALSE, "thumbnails")
  /\ UNCHANGED <<activeCapture, runs, inbox, sent, viewport, visibleTab, probe,
                 listening, assembler, wait, lookup, download, formatter, popup>>

\* Method 2: the first match of the pattern in the body's text, accepted when
\* it passes the sanity check.
BodyText ==
  /\ locator.st = "text"
  /\ \E el \in Elements("text") :
       LET current == ParseInt(el.current)
           total == ParseInt(el.total)
       IN  locator' = Examine(locator, el,
                           IF /\ el.current # <<>>
                              /\ total.v >= 1 /\ total.v <= MaxTotal
                              /\ current.v >= 1 /\ current.v <= total.v
                           THEN SlideInfo(current.v, total.v, 2)
                           ELSE NoSlideInfo,
                           2, FALSE, "thumbnails")
  /\ UNCHANGED <<activeCapture, runs, inbox, sent, viewport, visibleTab, probe,
                 listening, assembler, wait, lookup, download, formatter, popup>>

\* Mutant: one matched element is enough.
ThumbnailsAny ==
  /\ locator.st = "thumbnails"
  /\ \E el \in Elements("thumbnails") :
       locator' = Examine(locator, el,
                       IF el.count >= 1 THEN SlideInfo(1, el.count, 3)
                       ELSE NoSlideInfo,
                       3, locator.k < ThumbnailSelectors, "scripts")
  /\ UNCHANGED <<activeCapture, runs, inbox, sent, viewport, visibleTab, probe,
                 listening, assembler, wait, lookup, download, formatter, popup>>

\* Method 3, one selector: more than one element matched is a result.
Thumbnails ==
  /\ locator.st = "thumbnails"
  /\ \E el \in Elements("thumbnails") :
       locator' = Examine(locator, el,
                       IF el.count > 1 THEN SlideInfo(1, el.count, 3)
                       ELSE NoSlideInfo,
                       3, locator.k < ThumbnailSelectors, "scripts")
  /\ UNCHANGED <<activeCapture, runs, inbox, sent, viewport, visibleTab, probe,
                 listening, assembler, wait, lookup, download, formatter, popup>>

\* Method 4, one inline script (none left: not present), its text against
\* the page-count pattern.  After the last script Method 5 only logs,
\* getSlideInfo returns null and the handler calls isAuthRequired.
InlineScript ==
  /\ locator.st = "scripts"
  /\ \E el \in Elements("script") :
       /\ el.present => locator.k <= MaxScripts
       /\ locator' = Examine(locator, el,
                          IF el.total # <<>>
                          THEN SlideInfo(1, ParseInt(el.total).v, 4)
                          ELSE NoSlideInfo,
                          4, el.present, "email")
  /\ UNCHANGED <<activeCapture, runs, inbox, sent, viewport, visibleTab, probe,
                 listening, assembler, wait, lookup, download, formatter, popup>>

\* isAuthRequired, the email input.
EmailInput ==
  /\ locator.st = "email"
  /\ \E el \in Elements("email") :
       locator' = IF /\ el.present
                  /\ el.display # "none" /\ el.visibility # "hidden"
                  /\ el.height > 0
               THEN [locator EXCEPT !.st = "replied", !.last = el,
                                 !.response.type = "authRequired"]
               ELSE [locator EXCEPT !.st = "gates", !.k = 1, !.last = el]
  /\ UNCHANGED <<activeCapture, runs, inbox, sent, viewport, visibleTab, probe,
                 listening, assembler, wait, lookup, download, formatter, popup>>

\* isAuthRequired, one gate selector; false after the last one, and the
\* handler answers with the error.
GateContainer ==
  /\ locator.st = "gates"
  /\ \E el \in Elements("gate") :
       locator' = IF /\ el.present
                  /\ el.display # "none" /\ el.visibility # "hidden"
               THEN [locator EXCEPT !.st = "replied", !.last = el,
                                 !.response.type = "authRequired"]
               ELSE IF locator.k < GateSelectors
               THEN [locator EXCEPT !.k = @ + 1, !.last = el]
               ELSE [locator EXCEPT !.st = "replied", !.last = el,
                                 !.response.type = "error"]
  /\ UNCHANGED <<activeCapture, runs, inbox, sent, viewport, visibleTab, probe,
                 listening, assembler, wait, lookup, download, formatter, popup>>

\* ------------------------------------------------------ page data lookup
\* A fetchSlideImageUrl(slideNumber) call before its fetch, and once it has
\* returned.
NoLookup ==
  [st |-> "idle", slideNumber |-> 0, url |-> NoUrl,
   data |-> [ok |-> FALSE, imageUrl |-> "absent", image_url |-> "absent",
             url |-> "absent", src |-> "absent"]]

\* The fetch and response.json() settle with data; the function returns.
LookupReturned ==
  /\ lookup.st = "fetching"
  /\ lookup' = [lookup EXCEPT !.st = "returned",
                               !.url = FetchSlideImageUrl(lookup.data, lookup.slideNumber)]
  /\ UNCHANGED <<activeCapture, runs, inbox, sent, viewport, visibleTab, probe,
                 listening, assembler, wait, locator, download, formatter, popup>>

\* ------------------------------------------------------------ file name
\* downloadPdf: .substring(0, 100)
MaxNameLength == 100

\* Titles are sequences of one-character strings, up to MaxTitle characters
\* long, and each of those LongCopies times over.
MaxTitle == 3
LongCopies == 101

TitleStrings ==
  LET alphabet == {"a", " ", "\t", "/"}
      short == UNION {[1..n -> alphabet] : n \in 0..MaxTitle}
  IN  short \cup {[i \in 1..(Len(t) * LongCopies) |-> t[((i - 1) % Len(t)) + 1]] :
                   t \in short \ {<<>>}}

\* 'docsend-presentation'
DefaultName ==
  <<"d", "o", "c", "s", "e", "n", "d", "-",
    "p", "r", "e", "s", "e", "n", "t", "a", "t", "i", "o", "n">>

\* safeName of downloadPdf: the characters of [<>:"/\|?*] removed, then each
\* run of white space (\s+) replaced by a hyphen, then the first 100
\* characters, or the default when that is empty.
SafeNameUncut(filename) ==
  LET kept == SelectSeq(filename,
                        LAMBDA c : c \notin {"<", ">", ":", "\"", "/", "\\", "|", "?", "*"})
      space(c) == c \in {" ", "\t", "\n", "\r"}
      \* what the character at i becomes: itself, or a hyphen where a run
      \* of white space begins, or nothing further into the run
      out(i) == IF ~space(kept[i]) THEN <<kept[i]>>
                ELSE IF i > 1 /\ space(kept[i - 1]) THEN <<>>
                ELSE <<"-">>
      RECURSIVE hyphenated(_, _)
      hyphenated(lo, hi) ==
        IF lo > hi THEN <<>>
        ELSE IF lo = hi THEN out(lo)
        ELSE hyphenated(lo, (lo + hi) \div 2) \o hyphenated((lo + hi) \div 2 + 1, hi)
      cut == hyphenated(1, Len(kept))
  IN  IF cut = <<>> THEN DefaultName ELSE cut

SafeName(filename) ==
  LET kept == SelectSeq(filename,
                        LAMBDA c : c \notin {"<", ">", ":", "\"", "/", "\\", "|", "?", "*"})
      space(c) == c \in {" ", "\t", "\n", "\r"}
      \* what the character at i becomes: itself, or a hyphen where a run
      \* of white space begins, or nothing further into the run
      out(i) == IF ~space(kept[i]) THEN <<kept[i]>>
                ELSE IF i > 1 /\ space(kept[i - 1]) THEN <<>>
                ELSE <<"-">>
      RECURSIVE hyphenated(_, _)
      hyphenated(lo, hi) ==
        IF lo > hi THEN <<>>
        ELSE IF lo = hi THEN out(lo)
        ELSE hyphenated(lo, (lo + hi) \div 2) \o hyphenated((lo + hi) \div 2 + 1, hi)
      whole == hyphenated(1, Len(kept))
      cut == SubSeq(whole, 1, IF Len(whole) < MaxNameLength THEN Len(whole)
                              ELSE MaxNameLength)
  IN  IF cut = <<>> THEN DefaultName ELSE cut

\* A downloadPdf(pdfBytes, filename) call before it runs.
NoDownload == [st |-> "idle", title |-> <<>>, filename |-> <<>>]

\* downloadPdf up to its await: chrome.downloads.download is asked for
\* `${safeName}.pdf`.
SaveRequested ==
  /\ download.st = "called"
  /\ download' = [download EXCEPT
                    !.st = "requested",
                    !.filename = SafeName(download.title) \o <<".", "p", "d", "f">>]
  /\ UNCHANGED <<activeCapture, runs, inbox, sent, viewport, visibleTab, probe,
                 listening, assembler, wait, locator, lookup, formatter, popup>>

\* chrome.downloads.download settles: downloadPdf returns or throws.
SaveSettled ==
  /\ download.st = "requested"
  /\ \E st \in {"returned", "thrown"} : download' = [download EXCEPT !.st = st]
  /\ UNCHANGED <<activeCapture, runs, inbox, sent, viewport, visibleTab, probe,
                 listening, assembler, wait, locator, lookup, formatter, popup>>

\* --------------------------------------------------------- specifications
Quiet ==
  /\ activeCapture = NoCapture
  /\ runs = <<>>
  /\ inbox = <<>>
  /\ sent = <<>>
  /\ viewport = [t \in Tabs |-> MaxSlides]

\* No formatMarkdown call: the lines of its text, and the pieces of the html
\* it returned.
NoFormat == [st |-> "idle", lines |-> <<>>, html |-> <<>>]

\* No popup document. hidden: the panels whose classList holds 'hidden';
\* shown: the argument of the last showState; handler: the handler that ran
\* last; querying, asking: the initPopup calls waiting for chrome.tabs.query
\* and for the reply to GET_SLIDE_INFO.
NoPopup ==
  [loaded |-> FALSE, hidden |-> {}, shown |-> "", handler |-> "",
   enabled |-> FALSE, slideCount |-> 0, progress |-> <<>>, error |-> "",
   querying |-> 0, asking |-> 0]

Init ==
  /\ Quiet
  /\ visibleTab \in Tabs
  /\ probe = IdleCall
  /\ listening = FALSE
  /\ assembler = NoAssembly
  /\ wait = NoWait
  /\ locator = NoPage
  /\ lookup = NoLookup
  /\ download = NoDownload
  /\ formatter = NoFormat
  /\ popup = NoPopup

Next ==
  \/ \E t \in Tabs, n \in 0..MaxSlides : StartCapture(t, n)
  \/ \E r \in 1..Len(runs) : OnDocumentTitle(r)
  \/ \E r \in 1..Len(runs) : DocumentTitleRejected(r)
  \/ \E r \in 1..Len(runs) : CsFetchSlideUrls(r)
  \/ \E r \in 1..Len(runs) : FetchSlideUrlsRejected(r)
  \/ \E r \in 1..Len(runs) : CsPageData(r)
  \/ \E r \in 1..Len(runs) : OnSlideUrls(r)
  \/ \E r \in 1..Len(runs) : OnImage(r)
  \/ \E r \in 1..Len(runs) : OnGoToSlide(r)
  \/ \E r \in 1..Len(runs) : GoToSlideRejected(r)
  \/ \E r \in 1..Len(runs) : FirstDelayElapsed(r)
  \/ \E r \in 1..Len(runs) : OnScreenshot(r)
  \/ \E r \in 1..Len(runs) : ScreenshotRejected(r)
  \/ \E r \in 1..Len(runs) : OnNextSlide(r)
  \/ \E r \in 1..Len(runs) : NextSlideRejected(r)
  \/ \E r \in 1..Len(runs) : TransitionDelayElapsed(r)
  \/ \E r \in 1..Len(runs) : CooldownElapsed(r)
  \/ \E r \in 1..Len(runs) : OnPdf(r)
  \/ \E r \in 1..Len(runs) : PdfRejected(r)
  \/ \E r \in 1..Len(runs) : OnDownload(r)
  \/ \E r \in 1..Len(runs) : DownloadRejected(r)
  \/ OnFetchProgress
  \/ \E t \in Tabs : ActivateTab(t)
  \/ PopupOpened
  \/ PopupClosed

Spec == Init /\ [][Next]_vars

\* What a run's collaborators do: the call startCapture awaits settles, one
\* way or the other, and a message of the content script in flight is
\* delivered.
Settle ==
  \/ \E r \in 1..Len(runs) :
       \/ OnDocumentTitle(r) \/ DocumentTitleRejected(r)
       \/ CsFetchSlideUrls(r) \/ FetchSlideUrlsRejected(r)
       \/ CsPageData(r) \/ OnSlideUrls(r) \/ OnImage(r)
       \/ OnGoToSlide(r) \/ GoToSlideRejected(r) \/ FirstDelayElapsed(r)
       \/ OnScreenshot(r) \/ ScreenshotRejected(r)
       \/ OnNextSlide(r) \/ NextSlideRejected(r)
       \/ TransitionDelayElapsed(r) \/ CooldownElapsed(r)
       \/ OnPdf(r) \/ PdfRejected(r)
       \/ OnDownload(r) \/ DownloadRejected(r)
  \/ OnFetchProgress

\* The extension with collaborators that always answer: no call a run
\* awaits stays pending for ever.  Requests and the popup opening or closing
\* are not promised.  The visible tab is any tab and stays: it decides what
\* a screenshot shows, not whether a call returns.
LiveNext ==
  \/ \E t \in Tabs, n \in 0..MaxSlides : StartCapture(t, n)
  \/ \E r \in 1..Len(runs) : OnDocumentTitle(r)
  \/ \E r \in 1..Len(runs) : DocumentTitleRejected(r)
  \/ \E r \in 1..Len(runs) : CsFetchSlideUrls(r)
  \/ \E r \in 1..Len(runs) : FetchSlideUrlsRejected(r)
  \/ \E r \in 1..Len(runs) : CsPageData(r)
  \/ \E r \in 1..Len(runs) : OnSlideUrls(r)
  \/ \E r \in 1..Len(runs) : OnImage(r)
  \/ \E r \in 1..Len(runs) : OnGoToSlide(r)
  \/ \E r \in 1..Len(runs) : GoToSlideRejected(r)
  \/ \E r \in 1..Len(runs) : FirstDelayElapsed(r)
  \/ \E r \in 1..Len(runs) : OnScreenshot(r)
  \/ \E r \in 1..Len(runs) : ScreenshotRejected(r)
  \/ \E r \in 1..Len(runs) : OnNextSlide(r)
  \/ \E r \in 1..Len(runs) : NextSlideRejected(r)
  \/ \E r \in 1..Len(runs) : TransitionDelayElapsed(r)
  \/ \E r \in 1..Len(runs) : CooldownElapsed(r)
  \/ \E r \in 1..Len(runs) : OnPdf(r)
  \/ \E r \in 1..Len(runs) : PdfRejected(r)
  \/ \E r \in 1..Len(runs) : OnDownload(r)
  \/ \E r \in 1..Len(runs) : DownloadRejected(r)
  \/ OnFetchProgress
  \/ PopupOpened
  \/ PopupClosed

LiveSpec == Init /\ [][LiveNext]_vars /\ WF_vars(Settle)

\* fetchImageWithRetry alone, for every maxRetries up to the bound.
FetchInit ==
  /\ Quiet
  /\ visibleTab = 1
  /\ \E m \in 1..MaxProbeRetries : probe = FetchStart(m)
  /\ listening = FALSE
  /\ assembler = NoAssembly
  /\ wait = NoWait
  /\ locator = NoPage
  /\ lookup = NoLookup
  /\ download = NoDownload
  /\ formatter = NoFormat
  /\ popup = NoPopup

FetchNext == ProbeResponse \/ ProbeBody \/ ProbeTimer

FetchSpec == FetchInit /\ [][FetchNext]_vars

\* generatePdf alone, for every sequence of image data up to the bound.
ImageSequences == UNION {[1..n -> ImageData] : n \in 0..MaxImages}

PdfInit ==
  /\ Quiet
  /\ visibleTab = 1
  /\ probe = IdleCall
  /\ listening = FALSE
  /\ \E imageDataArray \in ImageSequences :
       assembler = GeneratePdfStart(imageDataArray)
  /\ wait = NoWait
  /\ locator = NoPage
  /\ lookup = NoLookup
  /\ download = NoDownload
  /\ formatter = NoFormat
  /\ popup = NoPopup

PdfNext == AssemblerCreated \/ AssemblerEmbedded \/ AssemblerSaved

PdfSpec == PdfInit /\ [][PdfNext]_vars

\* A navigation handler's wait alone, on every page state.  Timers that are
\* pending fire and a settled promise's continuation runs; frames are not
\* promised (a tab in the background gets none), nor is anything the page
\* does.
WaitInit ==
  /\ Quiet
  /\ visibleTab = 1
  /\ probe = IdleCall
  /\ listening = FALSE
  /\ assembler = NoAssembly
  /\ \E signal \in Signals, loader \in BOOLEAN, img \in {"none", "loading", "complete"} :
       wait = WaitForSlideLoad(signal, loader, img)
  /\ locator = NoPage
  /\ lookup = NoLookup
  /\ download = NoDownload
  /\ formatter = NoFormat
  /\ popup = NoPopup

WaitNext ==
  \/ WaitFrame
  \/ WaitImageTimeout
  \/ WaitFallbackTimeout
  \/ WaitImageLoaded
  \/ WaitImageInserted
  \/ WaitLoaderToggled
  \/ WaitReplied

WaitSpec ==
  /\ WaitInit
  /\ [][WaitNext]_vars
  /\ WF_vars(WaitImageTimeout)
  /\ WF_vars(WaitFallbackTimeout)
  /\ WF_vars(WaitReplied)

\* The GET_SLIDE_INFO handler alone, on every document.
LocatorInit ==
  /\ Quiet
  /\ visibleTab = 1
  /\ probe = IdleCall
  /\ listening = FALSE
  /\ assembler = NoAssembly
  /\ wait = NoWait
  /\ locator = NoPage
  /\ lookup = NoLookup
  /\ download = NoDownload
  /\ formatter = NoFormat
  /\ popup = NoPopup

LocatorNext ==
  \/ OnGetSlideInfo
  \/ PageLabel
  \/ BodyText
  \/ Thumbnails
  \/ InlineScript
  \/ EmailInput
  \/ GateContainer

LocatorSpec == LocatorInit /\ [][LocatorNext]_vars

\* fetchSlideImageUrl alone, on every reply of the page_data endpoint: each
\* of the four fields absent, empty or one of two URLs.
LookupInit ==
  /\ Quiet
  /\ visibleTab = 1
  /\ probe = IdleCall
  /\ listening = FALSE
  /\ assembler = NoAssembly
  /\ wait = NoWait
  /\ locator = NoPage
  /\ \E slideNumber \in 1..MaxSlides,
        data \in [ok : BOOLEAN,
                  imageUrl : {"absent", "", "u", "v"},
                  image_url : {"absent", "", "u", "v"},
                  url : {"absent", "", "u", "v"},
                  src : {"absent", "", "u", "v"}] :
       lookup = [NoLookup EXCEPT !.st = "fetching", !.slideNumber = slideNumber,
                                 !.data = data]
  /\ download = NoDownload
  /\ formatter = NoFormat
  /\ popup = NoPopup

LookupNext == LookupReturned

LookupSpec == LookupInit /\ [][LookupNext]_vars

\* downloadPdf alone, on every title.
DownloadInit ==
  /\ Quiet
  /\ visibleTab = 1
  /\ probe = IdleCall
  /\ listening = FALSE
  /\ assembler = NoAssembly
  /\ wait = NoWait
  /\ locator = NoPage
  /\ lookup = NoLookup
  /\ \E title \in TitleStrings :
       download = [NoDownload EXCEPT !.st = "called", !.title = title]
  /\ formatter = NoFormat
  /\ popup = NoPopup

DownloadNext == SaveRequested \/ SaveSettled

DownloadSpec == DownloadInit /\ [][DownloadNext]_vars

\* --------------------------------------------------------- formatMarkdown
\* A line is the sequence of its characters; an inserted tag or an entity
\* is one element. text.split('\n') gives at least one line, and no line
\* holds a newline, so a text is a non-empty sequence of lines.
MaxLines == 3

\* line.replace(/\*\*(.+?)\*\*/g, '<strong>$1</strong>'), then
\* line.replace(/(?<!\*)\*([^*]+)\*(?!\*)/g, '<em>$1</em>').
Emphasis(line) ==
  LET RECURSIVE bold(_, _)
      bold(s, p) ==
        IF p > Len(s) THEN <<>>
        ELSE LET ends == {q \in (p + 3)..(Len(s) - 1) : s[q] = "*" /\ s[q + 1] = "*"}
             IN IF p + 1 <= Len(s) /\ s[p] = "*" /\ s[p + 1] = "*" /\ ends # {}
                THEN LET q == CHOOSE e \in ends : \A o \in ends : e <= o
                     IN <<"<strong>">> \o SubSeq(s, p + 2, q - 1) \o <<"</strong>">>
                          \o bold(s, q + 2)
                ELSE <<s[p]>> \o bold(s, p + 1)
      RECURSIVE italic(_, _)
      italic(s, p) ==
        IF p > Len(s) THEN <<>>
        ELSE LET stars == {q \in (p + 1)..Len(s) : s[q] = "*"}
                 q == IF stars = {} THEN 0
                      ELSE CHOOSE e \in stars : \A o \in stars : e <= o
             IN IF /\ s[p] = "*"
                   /\ (p = 1 \/ s[p - 1] # "*")
                   /\ q >= p + 2
                   /\ (q = Len(s) \/ s[q + 1] # "*")
                THEN <<"<em>">> \o SubSeq(s, p + 1, q - 1) \o <<"</em>">>
                       \o italic(s, q + 1)
                ELSE <<s[p]>> \o italic(s, p + 1)
  IN italic(bold(line, 1), 1)

\* The if / else-if chain of the loop body: which pattern the line matches
\* first, and the $1 of that pattern.
LineKind(line) ==
  LET n == Len(line)
      starts(prefix) ==
        /\ n > Len(prefix)
        /\ SubSeq(line, 1, Len(prefix)) = prefix
      rest(k) == SubSeq(line, k + 1, n)
      numbers == {d \in 1..(n - 3) :
                    /\ \A j \in 1..d : line[j] \in Digits
                    /\ line[d + 1] = "." /\ line[d + 2] = " "}
  IN IF starts(<<"#", "#", "#", " ">>) THEN [kind |-> "h4", content |-> rest(4)]
     ELSE IF starts(<<"#", "#", " ">>) THEN [kind |-> "h3", content |-> rest(3)]
     ELSE IF starts(<<"#", " ">>) THEN [kind |-> "h2", content |-> rest(2)]
     ELSE IF starts(<<"-", " ">>) \/ starts(<<"*", " ">>)
       THEN [kind |-> "ul", content |-> rest(2)]
     ELSE IF numbers # {}
       THEN [kind |-> "ol",
             content |-> rest((CHOOSE d \in numbers : TRUE) + 2)]
     ELSE IF \A j \in 1..n : line[j] = " " THEN [kind |-> "empty", content |-> <<>>]
     ELSE [kind |-> "p", content |-> line]

\* Mutant: a bullet after a numbered item opens its list without closing
\* the one that is open.
FormatMarkdownNested(lines) ==
  LET escapeHtml(line) ==
        [j \in 1..Len(line) |->
           CASE line[j] = "<" -> "&lt;" [] line[j] = ">" -> "&gt;"
             [] line[j] = "&" -> "&amp;" [] OTHER -> line[j]]
      piece(s, i) == [s |-> s, line |-> i]
      pieces(content, i) == [j \in 1..Len(content) |-> piece(content[j], i)]
      close(inList, listType, i) ==
        IF inList THEN <<piece(IF listType = "ul" THEN "</ul>" ELSE "</ol>", i)>>
        ELSE <<>>
      wrapped(tag, end, content, i) ==
        <<piece(tag, i)>> \o pieces(content, i) \o <<piece(end, i)>>
      RECURSIVE loop(_, _, _)
      loop(i, inList, listType) ==
        IF i > Len(lines) THEN close(inList, listType, i)
        ELSE LET m == LineKind(Emphasis(escapeHtml(lines[i])))
             IN CASE m.kind \in {"h2", "h3", "h4"} ->
                       close(inList, listType, i)
                         \o wrapped("<" \o m.kind \o ">", "</" \o m.kind \o ">", m.content, i)
                         \o loop(i + 1, FALSE, listType)
                  [] m.kind = "ul" ->
                       (IF ~inList \/ listType # "ul"
                        THEN <<piece("<ul>", i)>>
                        ELSE <<>>)
                         \o wrapped("<li>", "</li>", m.content, i)
                         \o loop(i + 1, TRUE, "ul")
                  [] m.kind = "ol" ->
                       (IF ~inList \/ listType # "ol"
                        THEN (IF inList THEN <<piece("</ul>", i)>> ELSE <<>>)
                               \o <<piece("<ol>", i)>>
                        ELSE <<>>)
                         \o wrapped("<li>", "</li>", m.content, i)
                         \o loop(i + 1, TRUE, "ol")
                  [] m.kind = "empty" ->
                       close(inList, listType, i) \o <<piece("<br>", i)>>
                         \o loop(i + 1, FALSE, listType)
                  [] OTHER ->
                       close(inList, listType, i)
                         \o wrapped("<p>", "</p>", m.content, i)
                         \o loop(i + 1, FALSE, listType)
  IN loop(1, FALSE, "null")

\* formatMarkdown(text): the html it returns, as the sequence of its pieces,
\* each with the number of the line whose turn of the loop appended it (the
\* closing tag after the loop has the number after the last line).
FormatMarkdown(lines) ==
  LET escapeHtml(line) ==
        [j \in 1..Len(line) |->
           CASE line[j] = "<" -> "&lt;" [] line[j] = ">" -> "&gt;"
             [] line[j] = "&" -> "&amp;" [] OTHER -> line[j]]
      piece(s, i) == [s |-> s, line |-> i]
      pieces(content, i) == [j \in 1..Len(content) |-> piece(content[j], i)]
      close(inList, listType, i) ==
        IF inList THEN <<piece(IF listType = "ul" THEN "</ul>" ELSE "</ol>", i)>>
        ELSE <<>>
      wrapped(tag, end, content, i) ==
        <<piece(tag, i)>> \o pieces(content, i) \o <<piece(end, i)>>
      RECURSIVE loop(_, _, _)
      loop(i, inList, listType) ==
        IF i > Len(lines) THEN close(inList, listType, i)
        ELSE LET m == LineKind(Emphasis(escapeHtml(lines[i])))
             IN CASE m.kind \in {"h2", "h3", "h4"} ->
                       close(inList, listType, i)
                         \o wrapped("<" \o m.kind \o ">", "</" \o m.kind \o ">", m.content, i)
                         \o loop(i + 1, FALSE, listType)
                  [] m.kind = "ul" ->
                       (IF ~inList \/ listType # "ul"
                        THEN (IF inList THEN <<piece("</ol>", i)>> ELSE <<>>)
                               \o <<piece("<ul>", i)>>
                        ELSE <<>>)
                         \o wrapped("<li>", "</li>", m.content, i)
                         \o loop(i + 1, TRUE, "ul")
                  [] m.kind = "ol" ->
                       (IF ~inList \/ listType # "ol"
                        THEN (IF inList THEN <<piece("</ul>", i)>> ELSE <<>>)
                               \o <<piece("<ol>", i)>>
                        ELSE <<>>)
                         \o wrapped("<li>", "</li>", m.content, i)
                         \o loop(i + 1, TRUE, "ol")
                  [] m.kind = "empty" ->
                       close(inList, listType, i) \o <<piece("<br>", i)>>
                         \o loop(i + 1, FALSE, listType)
                  [] OTHER ->
                       close(inList, listType, i)
                         \o wrapped("<p>", "</p>", m.content, i)
                         \o loop(i + 1, FALSE, listType)
  IN loop(1, FALSE, "null")

\* return html
MarkdownFormatted ==
  /\ formatter.st = "called"
  /\ formatter' = [formatter EXCEPT !.st = "returned",
                                    !.html = FormatMarkdown(formatter.lines)]
  /\ UNCHANGED <<activeCapture, runs, inbox, sent, viewport, visibleTab, probe, listening, assembler, wait, locator, lookup, download, popup>>

\* formatMarkdown alone, on every text of up to MaxLines lines that match
\* or narrowly miss each pattern of the loop.
MdInit ==
  /\ Quiet
  /\ visibleTab = 1
  /\ probe = IdleCall
  /\ listening = FALSE
  /\ assembler = NoAssembly
  /\ wait = NoWait
  /\ locator = NoPage
  /\ lookup = NoLookup
  /\ download = NoDownload
  /\ LET SampleLines ==
           {<<>>, <<" ">>, <<"a">>,
            <<"#", " ", "a">>, <<"#", "#", " ", "a">>, <<"#", "#", "#", " ", "a">>,
            <<"#", "a">>,
            <<"-", " ", "a">>, <<"*", " ", "a">>, <<"-", " ">>,
            <<"1", ".", " ", "a">>, <<"1", "2", ".", " ", "a">>, <<"1", ".", "a">>,
            <<"*", " ", "a", "*">>, <<"*", " ", "*", "*", "a", "*", "*">>,
            <<"<", "u", "l", ">">>}
     IN \E n \in 1..MaxLines : \E text \in [1..n -> SampleLines] :
          formatter = [NoFormat EXCEPT !.st = "called", !.lines = text]
  /\ popup = NoPopup

MdNext == MarkdownFormatted

MdSpec == MdInit /\ [][MdNext]_vars

\* ------------------------------------------------------------------ popup
\* popup.js: the ids of the six panels.
States ==
  [READY |-> "ready-state", PROGRESS |-> "progress-state",
   COMPLETE |-> "complete-state", ERROR |-> "error-state",
   NOT_DOCSEND |-> "not-docsend-state", AUTH_REQUIRED |-> "auth-required-state"]

\* initPopup calls that can be in flight at once.
MaxInits == 2

\* showState(stateName)
ShowState(p, stateName) ==
  [p EXCEPT !.hidden = {States[k] : k \in DOMAIN States} \ {stateName},
            !.shown = stateName]

\* startDownload(); thrown: chrome.runtime.sendMessage throws.
StartDownload(p, thrown) ==
  LET progressing == [ShowState(p, States.PROGRESS) EXCEPT
                        !.progress = <<0, p.slideCount>>]
  IN IF thrown
     THEN [ShowState(progressing, States.ERROR) EXCEPT
             !.error = "Failed to start download."]
     ELSE progressing

\* initPopup(), one await at a time.
InitPopupStep ==
  /\ popup.loaded
  /\ \/ /\ popup.querying > 0
        /\ \E tab \in {"none", "other", "docsend"} :
             LET p == [popup EXCEPT !.querying = @ - 1, !.handler = "initPopup"]
             IN popup' =
                  CASE tab = "none" ->
                         [ShowState(p, States.ERROR) EXCEPT
                            !.error = "Could not connect to Docsend page."]
                    [] tab = "other" -> ShowState(p, States.NOT_DOCSEND)
                    [] OTHER -> [p EXCEPT !.asking = @ + 1]
     \/ /\ popup.asking > 0
        /\ \E reply \in {"authRequired", "error", "noReceiver", "rejected", "slides"},
              totalSlides \in 1..MaxSlides :
             LET p == [popup EXCEPT !.asking = @ - 1, !.handler = "initPopup"]
             IN popup' =
                  CASE reply = "authRequired" -> ShowState(p, States.AUTH_REQUIRED)
                    [] reply = "error" ->
                         [ShowState(p, States.ERROR) EXCEPT
                            !.error = "Could not determine slide count"]
                    [] reply = "noReceiver" ->
                         [ShowState(p, States.ERROR) EXCEPT
                            !.error = "Please refresh the Docsend page and try again."]
                    [] reply = "rejected" ->
                         [ShowState(p, States.ERROR) EXCEPT
                            !.error = "Could not connect to Docsend page."]
                    [] OTHER ->
                         ShowState([p EXCEPT !.slideCount = totalSlides, !.enabled = TRUE],
                                   States.READY)
  /\ UNCHANGED <<activeCapture, runs, inbox, sent, viewport, visibleTab, probe, listening, assembler, wait, locator, lookup, download, formatter>>

\* The click listeners of the three buttons.
Clicked(button) ==
  /\ popup.loaded
  /\ LET p == [popup EXCEPT !.handler = button]
     IN CASE button = "download-btn" ->
               /\ popup.enabled
               /\ \E thrown \in BOOLEAN : popup' = StartDownload(p, thrown)
          [] button = "download-again-btn" ->
               \E thrown \in BOOLEAN :
                 popup' = StartDownload(ShowState(p, States.READY), thrown)
          [] OTHER ->
               /\ popup.querying + popup.asking < MaxInits
               /\ popup' = [ShowState(p, States.READY) EXCEPT !.querying = @ + 1]
  /\ UNCHANGED <<activeCapture, runs, inbox, sent, viewport, visibleTab, probe, listening, assembler, wait, locator, lookup, download, formatter>>

\* Mutant: a progress message brings the progress panel up.
OnPopupMessageShowingProgress(message) ==
  /\ popup.loaded
  /\ LET p == [popup EXCEPT !.handler = message.type]
     IN popup' =
          CASE message.type = "PROGRESS_UPDATE" ->
                 [ShowState(p, States.PROGRESS) EXCEPT
                    !.progress = <<message.current, message.total>>]
            [] message.type = "CAPTURE_COMPLETE" -> ShowState(p, States.COMPLETE)
            [] OTHER -> [ShowState(p, States.ERROR) EXCEPT !.error = message.error]
  /\ UNCHANGED <<activeCapture, runs, inbox, sent, viewport, visibleTab, probe, listening, assembler, wait, locator, lookup, download, formatter>>

\* chrome.runtime.onMessage listener of the popup.
OnPopupMessage(message) ==
  /\ popup.loaded
  /\ LET p == [popup EXCEPT !.handler = message.type]
     IN popup' =
          CASE message.type = "PROGRESS_UPDATE" ->
                 [p EXCEPT !.progress = <<message.current, message.total>>]
            [] message.type = "CAPTURE_COMPLETE" -> ShowState(p, States.COMPLETE)
            [] OTHER -> [ShowState(p, States.ERROR) EXCEPT !.error = message.error]
  /\ UNCHANGED <<activeCapture, runs, inbox, sent, viewport, visibleTab, probe, listening, assembler, wait, locator, lookup, download, formatter>>

\* The popup document as loaded, DOMContentLoaded delivered: initPopup is
\* waiting for chrome.tabs.query. Which panels the markup hides, and whether
\* it disables the download button, is not fixed by popup.js.
PopupInit ==
  /\ Quiet
  /\ visibleTab = 1
  /\ probe = IdleCall
  /\ listening = FALSE
  /\ assembler = NoAssembly
  /\ wait = NoWait
  /\ locator = NoPage
  /\ lookup = NoLookup
  /\ download = NoDownload
  /\ formatter = NoFormat
  /\ \E hidden \in SUBSET {States[k] : k \in DOMAIN States}, enabled \in BOOLEAN :
       popup = [NoPopup EXCEPT !.loaded = TRUE, !.hidden = hidden,
                               !.enabled = enabled, !.querying = 1]

PopupNext ==
  \/ InitPopupStep
  \/ \E button \in {"download-btn", "download-again-btn", "retry-btn"} : Clicked(button)
  \/ \E message \in {ProgressUpdate(current, MaxSlides) : current \in 1..MaxSlides}
                      \cup {CaptureComplete, CaptureError(CaptureFailedMessage)} :
       OnPopupMessage(message)

PopupSpec == PopupInit /\ [][PopupNext]_vars

\* ------------------------------------------------------------------ claims
RunIds == 1..Len(runs)

Last(seq) == seq[Len(seq)]

ScreenshotPcs ==
  {"awaitGoto", "delayFirst", "awaitShot", "awaitNext", "delayTransition",
   "delayCooldown"}

\* C1: at every instant at most one invocation of startCapture is past the
\* entry guard and not yet returned, and activeCapture holds that
\* invocation's request.
C1_AtMostOneSession ==
  /\ \A a, b \in RunIds : Live(a) /\ Live(b) => a = b
  /\ \A r \in RunIds :
       Live(r) => activeCapture = Capture(runs[r].tabId, runs[r].totalSlides)

\* A START_CAPTURE arrived between two awaits of a running startCapture.
C1_Witness ==
  \E a, b \in RunIds :
    /\ runs[a].pc \in {"fetching", "awaitShot", "awaitPdf"}
    /\ runs[b].pc = "rejected"

\* C2: a START_CAPTURE that finds a session active sends the Busy error,
\* starts nothing now or later, and leaves activeCapture, every earlier
\* invocation's locals and the messages in flight as they were.
C2_BusyRejects ==
  [][/\ (~activeCapture.null /\ Len(runs') = Len(runs) + 1) =>
          /\ runs'[Len(runs')].pc = "rejected"
          /\ activeCapture' = activeCapture
          /\ \A r \in RunIds : runs'[r] = runs[r]
          /\ sent' = Append(sent, CaptureError("A capture is already in progress"))
          /\ inbox' = inbox
     /\ \A r \in RunIds : runs[r].pc = "rejected" => runs'[r].pc = "rejected"]_vars

\* A request was rejected while the session had captured a page, and the
\* Busy error is the last message sent.
C2_Witness ==
  \E a, b \in RunIds :
    /\ Live(a) /\ runs[a].images # <<>>
    /\ runs[b].pc = "rejected"
    /\ sent # <<>> /\ Last(sent).type = "CAPTURE_ERROR"

\* C3: whenever no invocation is running the slot is empty, so a run that
\* ended in Done or Failed left it cleared; the START_CAPTURE that follows
\* is accepted and starts from fresh locals and its own request.
C3_SlotCleared ==
  /\ []((\A r \in RunIds : ~Live(r)) => activeCapture = NoCapture)
  /\ [][(Len(runs') = Len(runs) + 1 /\ \A r \in RunIds : ~Live(r)) =>
          /\ ~activeCapture'.null
          /\ runs'[Len(runs')] =
               Run("awaitTitle", activeCapture'.tabId, activeCapture'.totalSlides)]_vars

\* A run is under way after an earlier one ended in Failed.
C3_Witness ==
  \E a, b \in RunIds : a < b /\ runs[a].pc = "failed" /\ Live(b)

\* C4: when the URL lookup stops short of totalSlides the run goes on under
\* screenshots from nothing; after a fallback the run holds no URL list and
\* only screenshots, the i-th capture is made with the request's tab on
\* page i, and assembly gets exactly totalSlides screenshots.
C4_FallbackRestarts ==
  /\ [](\A r \in RunIds :
          runs[r].tried = <<"api", "screenshot">> /\ Live(r) =>
            /\ runs[r].urls.null
            /\ \A k \in 1..Len(runs[r].images) : runs[r].images[k].via = "screenshot"
            /\ runs[r].pc = "awaitShot" =>
                 /\ Len(runs[r].images) = runs[r].i - 1
                 /\ viewport[runs[r].tabId] = runs[r].i
            /\ runs[r].pc \in {"awaitPdf", "awaitDownload"} =>
                 Len(runs[r].images) = runs[r].totalSlides)
  /\ [][\A r \in RunIds :
          (/\ runs[r].pc = "urlsReplied"
           /\ Len(runs[r].csUrls) < runs[r].totalSlides
           /\ runs'[r] # runs[r]) =>
            /\ runs'[r].pc = "awaitGoto"
            /\ runs'[r].images = <<>>
            /\ runs'[r].tried = <<"api", "screenshot">>]_vars

\* The lookup failed on page 2 and the screenshots of all pages are ready
\* for assembly.
C4_Witness ==
  \E r \in RunIds :
    /\ runs[r].pc = "awaitPdf"
    /\ runs[r].totalSlides >= 2
    /\ Len(runs[r].csUrls) = 1
    /\ runs[r].tried = <<"api", "screenshot">>
    /\ Len(runs[r].images) = runs[r].totalSlides

\* C5: a byte fetch that exhausts its retries is never what a run fails
\* with: the run goes on under screenshots instead.
C5_FetchFailureFallsBack ==
  \A r \in RunIds :
    runs[r].pc = "failed" => runs[r].error \notin {"Failed to fetch", "HTTP 500"}

\* C6: a run tries direct-link first and screenshots at most once after it;
\* a screenshot-strategy step that does not go on ends the run in Failed
\* with the failing call's message as the error sent, starting nothing else.
C6_SingleFallback ==
  /\ [](\A r \in RunIds :
          runs[r].tried \in {<<>>, <<"api">>, <<"api", "screenshot">>})
  /\ [][\A r \in RunIds :
          (/\ runs[r].pc \in ScreenshotPcs
           /\ runs'[r].pc \notin ScreenshotPcs \cup {"awaitPdf"}) =>
            /\ runs'[r].pc = "failed"
            /\ runs'[r].tried = runs[r].tried
            /\ runs'[r].error =
                 IF runs[r].pc = "awaitShot" THEN "Failed to capture tab"
                 ELSE "Could not establish connection. Receiving end does not exist."
            /\ Last(sent') = CaptureError(runs'[r].error)
            /\ activeCapture' = NoCapture]_vars

\* A capture failed after the fallback and the run ended in Failed.
C6_Witness ==
  \E r \in RunIds :
    /\ runs[r].pc = "failed"
    /\ runs[r].tried = <<"api", "screenshot">>
    /\ runs[r].error = "Failed to capture tab"
    /\ Last(sent) = CaptureError("Failed to capture tab")

\* C7: a fetchImageWithRetry call with the default maxRetries = 3 never
\* returns normally without image bytes: when its attempts have all failed
\* it has thrown.
C7_NeverReturnsEmpty ==
  (probe.maxRetries = 3 /\ probe.st = "returned") => probe.result.kind = "bytes"

ThreeHintedRefusals ==
  /\ Len(probe.log) >= 3
  /\ \A k \in 1..3 : probe.log[k].kind = "429" /\ probe.log[k].header = <<"1">>

\* C8: with maxRetries >= 4, after three 429 responses with Retry-After: 1
\* the call waited 1 s, 2 s and 3 s and has not given up; when the fourth
\* response is a 200 whose body is read it returns that response's bytes.
C8_FourthAttemptSucceeds ==
  (probe.maxRetries >= 4 /\ ThreeHintedRefusals) =>
    /\ \A k \in 1..3 : probe.log[k].slept /\ probe.log[k].ms = Num(1000 * k)
    /\ Len(probe.log) = 3 => probe.st \in {"delay", "pending", "body"}
    /\ (Len(probe.log) >= 4 /\ probe.log[4].kind = "ok") =>
         /\ probe.st = "returned"
         /\ probe.result = Bytes(4)
         /\ probe.requests = 4

C8_Witness ==
  /\ probe.maxRetries >= 4 /\ ThreeHintedRefusals
  /\ probe.st = "returned" /\ probe.result = Bytes(4)

\* C9: a call issues at most maxRetries requests; every finished attempt,
\* a 429 like any other, used up exactly one of them; and the request whose
\* response was returned is the last one issued.
C9_AtMostMaxRequests ==
  /\ probe.requests <= probe.maxRetries
  /\ \A k \in 1..Len(probe.log) : probe.log[k].attempt = k
  /\ probe.requests =
       Len(probe.log) + (IF probe.st \in {"pending", "body"} THEN 1 ELSE 0)
  /\ probe.result.kind = "bytes" => probe.requests = probe.result.attempt

\* Every request was used, one of them on a 429, and the call failed.
C9_Witness ==
  /\ probe.st = "threw" /\ probe.requests = probe.maxRetries
  /\ probe.requests >= 3
  /\ \E k \in 1..Len(probe.log) : probe.log[k].kind = "429"

\* A Retry-After value in delay-seconds form: a non-empty string of digits.
DelaySeconds(header) ==
  /\ header # NoHeader /\ header # <<>>
  /\ \A k \in 1..Len(header) : header[k] \in Digits

\* C10: after failed attempt k the call asks for a pause of hint * k seconds
\* when the response was a 429 (hint: the Retry-After seconds, 2 without the
\* header) and, when it retries after any other failure, of 1 * k seconds.
C10_BackoffDelays ==
  \A k \in 1..Len(probe.log) :
    LET e == probe.log[k]
    IN  /\ (e.kind = "429" /\ e.header = NoHeader) =>
             e.slept /\ e.ms = Num(2 * 1000 * k)
        /\ (e.kind = "429" /\ DelaySeconds(e.header)) =>
             e.slept /\ e.ms = Num(DecimalOf(e.header) * 1000 * k)
        /\ (e.kind \in {"status", "neterr", "bodyerr"} /\ k < probe.maxRetries) =>
             e.slept /\ e.ms = Num(1 * 1000 * k)

\* A second attempt was refused without a hint, a third with a two-digit
\* hint, after a first that failed otherwise.
C10_Witness ==
  /\ Len(probe.log) >= 3
  /\ probe.log[1].kind \in {"status", "neterr", "bodyerr"}
  /\ probe.log[2].kind = "429" /\ probe.log[2].header = NoHeader
  /\ probe.log[3].kind = "429" /\ probe.log[3].header = <<"1", "0">>

\* C11: in the direct-link strategy the k-th element of the image array is
\* what the byte fetch of page k's URL gave, the URL being the one the
\* page_data lookup of page k returned, however many attempts any fetch took;
\* the array handed to generatePdf has one element per page.
C11_ImagesInPageOrder ==
  \A r \in RunIds :
    (Live(r) /\ runs[r].tried = <<"api">>) =>
      /\ ~runs[r].urls.null =>
           /\ runs[r].urls.list = runs[r].csUrls
           /\ \A k \in 1..Len(runs[r].csUrls) : runs[r].csUrls[k].page = k
      /\ \A k \in 1..Len(runs[r].images) :
           /\ runs[r].images[k].via = "api"
           /\ runs[r].images[k].url = runs[r].csUrls[k]
      /\ runs[r].pc \in {"awaitPdf", "awaitDownload"} =>
           Len(runs[r].images) = runs[r].totalSlides

\* The images of two pages are ready for assembly.
C11_Witness ==
  \E r \in RunIds :
    /\ runs[r].pc = "awaitPdf" /\ runs[r].tried = <<"api">>
    /\ Len(runs[r].images) = 2
    /\ runs[r].images[1].url = Url(1, "u")
    /\ runs[r].images[2].url = Url(2, "u")
    /\ \A k \in 1..2 : runs[r].images[k].kind = "bytes"

\* C12: generatePdf on an empty image array does not return a document: a
\* run that hands it no image goes to Failed, not on to the download.
C12_EmptyAssemblyFails ==
  [][\A r \in RunIds :
       (runs[r].pc = "awaitPdf" /\ runs[r].images = <<>>) =>
         runs'[r].pc \in {"awaitPdf", "failed"}]_vars

\* C13: generatePdf adds one page per image in input order, page k as wide
\* and high as image k with the image drawn at (0, 0) in its own size; for a
\* sequence of PNG and JPEG images it returns, with as many pages as images.
C13_PagePerImage ==
  /\ Len(assembler.pages) <= Len(assembler.images)
  /\ \A k \in 1..Len(assembler.pages) :
       /\ assembler.pages[k].width = assembler.images[k].width
       /\ assembler.pages[k].height = assembler.images[k].height
       /\ assembler.pages[k].image = k
       /\ assembler.pages[k].x = 0 /\ assembler.pages[k].y = 0
       /\ assembler.pages[k].drawWidth = assembler.images[k].width
       /\ assembler.pages[k].drawHeight = assembler.images[k].height
  /\ assembler.st = "returned" => Len(assembler.pages) = Len(assembler.images)
  /\ (\A k \in 1..Len(assembler.images) :
        assembler.images[k].format \in {"png", "jpeg"}) => assembler.st # "threw"

\* [PNG 800x600, JPEG 1024x768] has been assembled.
C13_Witness ==
  /\ assembler.st = "returned"
  /\ assembler.images = <<Png(<<800, 600>>), Jpeg(<<1024, 768>>)>>
  /\ Len(assembler.pages) = 2
  /\ assembler.pages[1].width = 800 /\ assembler.pages[1].height = 600
  /\ assembler.pages[2].width = 1024 /\ assembler.pages[2].height = 768

\* A terminal event of an accepted run: CAPTURE_COMPLETE, or a CAPTURE_ERROR
\* other than the Busy answer to a rejected request.
IsRunTerminal(m) ==
  \/ m.type = "CAPTURE_COMPLETE"
  \/ m.type = "CAPTURE_ERROR" /\ m.error # "A capture is already in progress"

RunTerminals == SelectSeq(sent, IsRunTerminal)

Accepted(r) == r \in RunIds /\ runs[r].pc # "rejected"

LatestAccepted(r) == Accepted(r) /\ \A q \in RunIds : Accepted(q) => q <= r

\* C14: an accepted run sends no terminal event while it runs and exactly
\* one when it ends: CAPTURE_COMPLETE when it ends in Done, which it does
\* only from the awaited download, itself only reached from a generatePdf
\* that returned; CAPTURE_ERROR with the error's message when it ends in
\* Failed.
C14_OneTerminalEvent ==
  /\ [](\A r \in RunIds :
          /\ Live(r) => RunTerminals = <<>>
          /\ (LatestAccepted(r) /\ runs[r].pc = "done") =>
               RunTerminals = <<CaptureComplete>>
          /\ (LatestAccepted(r) /\ runs[r].pc = "failed") =>
               /\ runs[r].error # ""
               /\ RunTerminals = <<[type |-> "CAPTURE_ERROR", current |-> 0,
                                    total |-> 0, error |-> runs[r].error]>>)
  /\ [][\A r \in RunIds :
          /\ (runs'[r].pc = "done" /\ runs[r].pc # "done") =>
               runs[r].pc = "awaitDownload"
          /\ (runs'[r].pc = "awaitDownload" /\ runs[r].pc # "awaitDownload") =>
               runs[r].pc = "awaitPdf"]_vars

\* A second accepted run has failed after its screenshots, the first one
\* having completed.
C14_Witness ==
  \E a, b \in RunIds :
    /\ a < b /\ runs[a].pc = "done" /\ runs[b].pc = "failed"
    /\ runs[b].tried = <<"api", "screenshot">>
    /\ Len(RunTerminals) = 1

\* C15: a send that no popup receives changes nothing in the run: in a step
\* that sends while nobody listens, a run ends in Failed only when that
\* step's one message is the report of its own error, so a progress or
\* completion report sent to nobody never fails or diverts the run, and no
\* run step opens or closes the popup.
C15_ObserverIndependent ==
  [][(~listening /\ sent' # sent) =>
       /\ listening' = listening
       /\ \A r \in RunIds :
            (Live(r) /\ runs'[r].pc = "failed") =>
              /\ runs'[r].error # ""
              /\ sent' = Append(sent, [type |-> "CAPTURE_ERROR", current |-> 0,
                                       total |-> 0, error |-> runs'[r].error])
       /\ \A r \in RunIds :
            (Live(r) /\ sent'[Len(sent')].type = "PROGRESS_UPDATE") =>
              /\ runs'[r].pc \notin EndedPcs
              /\ Len(runs'[r].images) >= Len(runs[r].images)]_vars

\* With the popup closed a run has gone through its pages and completed.
C15_Witness ==
  /\ ~listening
  /\ \E r \in RunIds : runs[r].pc = "done" /\ runs[r].tried = <<"api", "screenshot">>
  /\ Len(sent) >= 4 /\ Last(sent) = CaptureComplete

IsFetch(o) == o.op = "fetch"

IsCapture(o) == o.op = "capture"

IsLookup(o) == o.op = "lookup"

\* C16: the byte fetches of a run are issued for pages 1, 2, ... in that
\* order and so are its captures, and the step that issues the fetch or the
\* capture of page i first sends PROGRESS_UPDATE (i, totalSlides) and
\* nothing else.
C16_ProgressBeforePage ==
  /\ [](\A r \in RunIds :
          /\ \A k \in 1..Len(SelectSeq(runs[r].ops, IsFetch)) :
               SelectSeq(runs[r].ops, IsFetch)[k].n = k
          /\ \A k \in 1..Len(SelectSeq(runs[r].ops, IsCapture)) :
               SelectSeq(runs[r].ops, IsCapture)[k].n = k
          /\ \A k \in 1..Len(runs[r].ops) :
               runs[r].ops[k].op \in {"fetch", "capture"} =>
                 /\ k > 1
                 /\ runs[r].ops[k - 1] = [op |-> "progress", n |-> runs[r].ops[k].n])
  /\ [][\A r \in RunIds :
          (/\ Len(runs'[r].ops) > Len(runs[r].ops)
           /\ Last(runs'[r].ops).op \in {"fetch", "capture"}) =>
            sent' = Append(sent, [type |-> "PROGRESS_UPDATE",
                                  current |-> Last(runs'[r].ops).n,
                                  total |-> runs[r].totalSlides, error |-> ""])]_vars

\* The capture of page 2 has been asked for, after a fallback.
C16_Witness ==
  \E r \in RunIds :
    /\ runs[r].pc = "awaitShot" /\ runs[r].i = 2
    /\ Last(runs[r].ops) = Op("capture", 2)
    /\ Last(sent) = ProgressUpdate(2, runs[r].totalSlides)

\* C17: a run has at most one request of the direct-link strategy in
\* flight: the lookup of the page fetchAllSlideUrls stands at, or the byte
\* fetch of the image fetchImagesFromUrls stands at, and no request is in
\* flight outside those two loops.
C17_OneRequestInFlight ==
  \A r \in RunIds :
    /\ Cardinality(runs[r].net) <= 1
    /\ runs[r].pc = "urlLookup" => runs[r].net = {Request("lookup", runs[r].csI)}
    /\ runs[r].pc = "fetching" => runs[r].net = {Request("fetch", runs[r].i + 1)}
    /\ runs[r].pc \notin {"urlLookup", "fetching"} => runs[r].net = {}

\* Page 2's image is being fetched, page 1's having been returned.
C17_Witness ==
  \E r \in RunIds :
    /\ runs[r].net = {Request("fetch", 2)}
    /\ Len(runs[r].images) = 1
    /\ Len(SelectSeq(runs[r].ops, IsLookup)) = 2

\* What the screenshot strategy is to do for pages from..total, the first
\* capture onwards.
RECURSIVE CapturePlan(_, _)
CapturePlan(from, total) ==
  IF from > total THEN <<>>
  ELSE <<Op("progress", from), Op("capture", from)>>
         \o (IF from < total
             THEN <<Op("next", 0), Op("loaded", 0), Op("delay", 800), Op("delay", 500)>>
             ELSE <<>>)
         \o CapturePlan(from + 1, total)

ScreenshotPlan(total) ==
  <<Op("goto", 1), Op("loaded", 0), Op("delay", 800)>> \o CapturePlan(1, total)

IsScreenshotOp(o) == o.op \notin {"lookup", "assemble"}

\* C18: what a run has done under the screenshot strategy is always a
\* beginning of: GO_TO_SLIDE 1, its reply, the settle delay, then per page a
\* capture and, except after the last, GO_TO_NEXT_SLIDE, its reply, the
\* settle delay and the cooldown; when the images go to generatePdf it is
\* all of that, with totalSlides captures.
C18_ScreenshotSequence ==
  \A r \in RunIds :
    (Live(r) /\ "screenshot" \in {runs[r].tried[k] : k \in 1..Len(runs[r].tried)}) =>
      LET done == SelectSeq(runs[r].ops, IsScreenshotOp)
          plan == ScreenshotPlan(runs[r].totalSlides)
                    \o <<Op("progress", runs[r].totalSlides)>>
      IN  /\ Len(done) <= Len(plan)
          /\ done = SubSeq(plan, 1, Len(done))
          /\ runs[r].pc \in {"awaitPdf", "awaitDownload"} =>
               /\ done = plan
               /\ Len(SelectSeq(runs[r].ops, IsCapture)) = runs[r].totalSlides
               /\ Len(runs[r].images) = runs[r].totalSlides

\* Two pages were captured and handed to generatePdf.
C18_Witness ==
  \E r \in RunIds :
    /\ runs[r].pc = "awaitPdf" /\ runs[r].totalSlides = 2
    /\ Len(SelectSeq(runs[r].ops, IsCapture)) = 2
    /\ Op("next", 0) \in {runs[r].ops[k] : k \in 1..Len(runs[r].ops)}

\* C19: a waitForSlideLoad that has been called is eventually resolved and
\* its handler's sendResponse eventually runs, whatever the page does.
C19_WaitResolves == <>(wait.resolved /\ wait.replied)

\* The reply went out on the fallback timeout, the indicator still showing
\* and the image not loaded.
C19_Witness ==
  /\ wait.replied /\ wait.by = "fallback timeout"
  /\ wait.loader /\ wait.img # "complete"

\* C20: page_data is asked for pages 1, 2, ... in order, each at most once
\* and none after a page that gave no URL; a URL list is adopted only with
\* one URL for each of the totalSlides pages, and after a page gave no URL
\* the run holds no list and no image of the direct-link strategy.
C20_AllOrNothing ==
  \A r \in RunIds :
    Live(r) =>
      LET asked == SelectSeq(runs[r].ops, IsLookup)
          found == runs[r].csUrls
      IN  /\ \A k \in 1..Len(asked) : asked[k].n = k
          /\ Len(asked) <= runs[r].totalSlides
          /\ \A k \in 1..Len(found) : found[k] # NoUrl /\ found[k].page = k
          /\ IF runs[r].pc = "urlLookup" THEN Len(asked) = Len(found) + 1
             ELSE Len(asked) \in {Len(found), Len(found) + 1}
          /\ ~runs[r].urls.null =>
               /\ Len(runs[r].urls.list) = runs[r].totalSlides
               /\ runs[r].urls.list = found
          /\ (runs[r].pc \notin {"awaitTitle", "urlsRequested", "urlLookup", "urlsReplied"}
                /\ Len(found) < runs[r].totalSlides) =>
               /\ runs[r].urls.null
               /\ \A k \in 1..Len(runs[r].images) : runs[r].images[k].via = "screenshot"

\* Page 1 of 2 gave no URL: the run went on under screenshots and page 2's
\* lookup was never made.
C20_Witness ==
  \E r \in RunIds :
    /\ runs[r].totalSlides = 2
    /\ runs[r].pc = "awaitShot"
    /\ runs[r].csUrls = <<>>
    /\ Len(SelectSeq(runs[r].ops, IsLookup)) = 1

\* ------------------------------------------------------------ slide info
\* C21: Method 2 accepts the pair {current, total} it parsed from the body
\* text exactly when 1 <= total <= 500 and 1 <= current <= total, and the
\* handler answers with that pair; any other pair is rejected and
\* getSlideInfo goes on to Method 3.
C21_TextSanity ==
  locator.last.kind = "text" /\ locator.last.current # <<>> =>
    LET current == DecimalOf(locator.last.current)
        total == DecimalOf(locator.last.total)
    IN  IF 1 <= total /\ total <= 500 /\ 1 <= current /\ current <= total
        THEN /\ locator.st = "replied"
             /\ locator.slideInfo = SlideInfo(current, total, 2)
             /\ locator.response =
                  [type |-> "slideInfo", currentSlide |-> current, totalSlides |-> total]
        ELSE /\ locator.st = "thumbnails" /\ locator.k = 1
             /\ locator.slideInfo = NoSlideInfo
             /\ locator.response.type = "none"

\* The body text read "2 of 500" and that was the answer.
C21_Witness ==
  /\ locator.last.kind = "text"
  /\ locator.last.current = <<"2">> /\ locator.last.total = <<"5", "0", "0">>
  /\ locator.response = [type |-> "slideInfo", currentSlide |-> 2, totalSlides |-> 500]

\* C22: the four methods run in the order page label, body text, thumbnail
\* count, inline script; a method runs only after every earlier one ended
\* without a result, and the answer is the result of the first method that
\* had one.
C22_CascadeOrder ==
  LET reader == [labels |-> 1, text |-> 2, thumbnails |-> 3, scripts |-> 4,
                 email |-> 5, gates |-> 5]
      examined == [label |-> 1, text |-> 2, thumbnails |-> 3, script |-> 4]
  IN  /\ locator.st \in DOMAIN reader =>
           /\ locator.failed = 1..(reader[locator.st] - 1)
           /\ locator.slideInfo = NoSlideInfo
      /\ locator.slideInfo # NoSlideInfo =>
           /\ locator.st = "replied" /\ locator.response.type = "slideInfo"
           /\ locator.slideInfo.method \in 1..4
           /\ locator.failed = 1..(locator.slideInfo.method - 1)
           /\ locator.last.kind \in DOMAIN examined
           /\ examined[locator.last.kind] = locator.slideInfo.method
      /\ locator.response.type = "slideInfo" => locator.slideInfo # NoSlideInfo

\* An inline script gave the answer after the three earlier methods had not.
C22_Witness ==
  /\ locator.response.type = "slideInfo"
  /\ locator.slideInfo.method = 4
  /\ locator.failed = {1, 2, 3}

\* C23: the handler answers authRequired only when all four methods failed
\* and a gating control is visibly rendered (display not none, visibility not
\* hidden, a bounding box that is not zero), answers the error only when all
\* four failed and the control read last is not, and answers with the slide
\* info as soon as a method has a result, no gating control having been read.
C23_GateAfterAllFailed ==
  LET control == locator.last
      visible == /\ control.kind \in {"email", "gate"} /\ control.present
                 /\ control.display # "none" /\ control.visibility # "hidden"
                 /\ control.height > 0
  IN  /\ locator.response.type = "authRequired" =>
           locator.failed = {1, 2, 3, 4} /\ visible
      /\ locator.response.type = "error" =>
           locator.failed = {1, 2, 3, 4} /\ ~visible
      /\ locator.response.type = "slideInfo" =>
           /\ control.kind \notin {"email", "gate"}
           /\ locator.response.currentSlide = locator.slideInfo.current
           /\ locator.response.totalSlides = locator.slideInfo.total

\* C28: every slide info the handler answers with has 1 <= currentSlide <=
\* totalSlides, so that the totalSlides the popup puts into START_CAPTURE is
\* positive.
C28_PositiveTotal ==
  locator.response.type = "slideInfo" =>
    /\ 1 <= locator.response.currentSlide
    /\ locator.response.currentSlide <= locator.response.totalSlides

\* C29: the handler answers authRequired only on a control, email input or
\* gate container, whose display is not none, whose visibility is not hidden
\* and whose bounding box is not zero.
C29_VisibleControl ==
  locator.response.type = "authRequired" =>
    /\ locator.last.present
    /\ locator.last.display # "none"
    /\ locator.last.visibility # "hidden"
    /\ locator.last.height > 0

\* C30: a thumbnail selector gives a result exactly when it matches more
\* than one element, and the result is current 1, total the number matched;
\* a selector that matches one element or none gives no result, and the next
\* selector or Method 4 is tried.
C30_ThumbnailCount ==
  locator.last.kind = "thumbnails" =>
    IF locator.last.count > 1
    THEN /\ locator.st = "replied"
         /\ locator.slideInfo = SlideInfo(1, locator.last.count, 3)
         /\ locator.response = [type |-> "slideInfo", currentSlide |-> 1,
                                totalSlides |-> locator.last.count]
    ELSE /\ locator.slideInfo = NoSlideInfo
         /\ locator.response.type = "none"
         /\ locator.st \in {"thumbnails", "scripts"}
         /\ locator.st = "scripts" <=> locator.k = 1

\* The first thumbnail selector matched at most one element, the second
\* matched two.
C30_Witness ==
  /\ locator.last.kind = "thumbnails" /\ locator.last.count = 2
  /\ locator.k = 2
  /\ locator.response = [type |-> "slideInfo", currentSlide |-> 1, totalSlides |-> 2]

\* -------------------------------------------------------------- embedder
\* C24: for each image generatePdf calls embedPng exactly when the first
\* four bytes are 0x89 0x50 0x4E 0x47, and embedJpg for any other bytes, fewer
\* than four included.
C24_PngBySignature ==
  /\ Len(assembler.chosen) <= Len(assembler.images)
  /\ \A k \in 1..Len(assembler.chosen) :
       LET head == assembler.images[k].head
       IN  assembler.chosen[k] =
             IF /\ Len(head) >= 4
                /\ head[1] = 137 /\ head[2] = 80 /\ head[3] = 78 /\ head[4] = 71
             THEN "embedPng" ELSE "embedJpg"

\* A PNG went to embedPng and then three bytes of the signature alone went
\* to embedJpg.
C24_Witness ==
  /\ Len(assembler.chosen) = 2
  /\ assembler.images[2].head = <<137, 80, 78>>
  /\ assembler.chosen = <<"embedPng", "embedJpg">>

\* ------------------------------------------------------------- file name
\* C25: the name the download is asked under is, before ".pdf", the title
\* without the characters < > : " / \ | ? *, with each run of white space
\* turned into one hyphen, cut to its first 100 characters, or
\* docsend-presentation when that is empty; so it is never empty, has at most
\* 100 characters and holds no such character and no white space.
C25_FileName ==
  download.st \in {"requested", "returned", "thrown"} =>
    LET illegal == {"<", ">", ":", "\"", "/", "\\", "|", "?", "*"}
        space == {" ", "\t", "\n", "\r"}
        kept == SelectSeq(download.title, LAMBDA c : c \notin illegal)
        \* the places of kept that survive: a character that is no white space,
        \* or the white space a run begins with
        places == {i \in 1..Len(kept) :
                    kept[i] \notin space \/ i = 1 \/ kept[i - 1] \notin space}
        rank(i) == Cardinality({h \in places : h <= i})
        size == IF Cardinality(places) < 100 THEN Cardinality(places) ELSE 100
        name == SubSeq(download.filename, 1, Len(download.filename) - 4)
    IN  /\ SubSeq(download.filename, Len(download.filename) - 3, Len(download.filename))
             = <<".", "p", "d", "f">>
        /\ size = 0 => name = DefaultName
        /\ size > 0 =>
             /\ Len(name) = size
             /\ \A i \in places :
                  rank(i) <= size =>
                    name[rank(i)] = IF kept[i] \in space THEN "-" ELSE kept[i]
        /\ name # <<>> /\ Len(name) <= 100
        /\ \A i \in 1..Len(name) : name[i] \notin illegal \cup space

\* A title of more than 100 characters with white space and a slash in it
\* was cut to 100.
C25_Witness ==
  /\ download.st = "requested"
  /\ Len(download.title) > 200
  /\ \E i \in 1..Len(download.title) : download.title[i] = "/"
  /\ \E i \in 1..Len(download.title) : download.title[i] = "\t"
  /\ Len(download.filename) = 104

\* ------------------------------------------------------ page data lookup
\* C26: fetchSlideImageUrl returns the first non-empty value among the
\* reply's imageUrl, image_url, url and src, in that order; with all four
\* absent or empty, or with a reply that is no success, it returns no URL.
C26_FirstAlias ==
  lookup.st = "returned" =>
    LET fields == <<lookup.data.imageUrl, lookup.data.image_url,
                    lookup.data.url, lookup.data.src>>
        filled == {k \in 1..4 : fields[k] # "absent" /\ fields[k] # ""}
    IN  IF lookup.data.ok /\ filled # {}
        THEN \E k \in filled :
               /\ \A h \in filled : k <= h
               /\ lookup.url = [page |-> lookup.slideNumber, href |-> fields[k]]
        ELSE lookup.url = NoUrl

\* imageUrl was empty, image_url absent, url and src held different URLs:
\* the one under url was returned.
C26_Witness ==
  /\ lookup.st = "returned"
  /\ lookup.data = [ok |-> TRUE, imageUrl |-> "", image_url |-> "absent",
                    url |-> "u", src |-> "v"]
  /\ lookup.url = [page |-> lookup.slideNumber, href |-> "u"]

\* ------------------------------------------------------------ strategies
\* C27: the images a run collects all come from the strategy it is in, byte
\* fetches of the adopted URLs or screenshots, never both, and the array
\* handed to generatePdf has exactly totalSlides of them.
C27_OneStrategy ==
  \A r \in RunIds :
    Live(r) =>
      /\ runs[r].images # <<>> => runs[r].tried # <<>>
      /\ \A k \in 1..Len(runs[r].images) :
           runs[r].images[k].via = Last(runs[r].tried)
      /\ runs[r].pc \in {"awaitPdf", "awaitDownload"} =>
           /\ Len(runs[r].images) = runs[r].totalSlides
           /\ Op("assemble", runs[r].totalSlides) \in
                {runs[r].ops[k] : k \in 1..Len(runs[r].ops)}

\* The lookup gave page 1's URL and none for page 2; two screenshots, and
\* nothing else, went to generatePdf.
C27_Witness ==
  \E r \in RunIds :
    /\ runs[r].pc = "awaitPdf" /\ runs[r].totalSlides = 2
    /\ runs[r].csUrls = <<Url(1, "u")>>
    /\ Len(runs[r].images) = 2
    /\ \A k \in 1..2 : runs[r].images[k].via = "screenshot"

\* ------------------------------------------------------------ termination
\* C31: with collaborators that always answer, every run past the entry
\* guard ends in done or failed and activeCapture is null then: whenever a
\* run is under way (there is at most one), a state follows in which none
\* is and the slot is empty.
C31_RunsEnd ==
  (\E r \in RunIds : Live(r)) ~>
    /\ \A r \in RunIds : runs[r].pc \in {"rejected", "done", "failed"}
    /\ activeCapture.null

\* A run that fell back to screenshots ended in done and left the slot
\* empty.
C31_Witness ==
  \E r \in RunIds :
    /\ runs[r].pc = "done" /\ runs[r].tried = <<"api", "screenshot">>
    /\ activeCapture.null

\* --------------------------------------------------------------- progress
\* C32: the current values of the PROGRESS_UPDATE messages of one accepted
\* run never go down, from the URL lookup through the image fetches or the
\* screenshots.
C32_ProgressMonotone ==
  \A j \in 1..Len(sent) : \A k \in j..Len(sent) :
    (sent[j].type = "PROGRESS_UPDATE" /\ sent[k].type = "PROGRESS_UPDATE") =>
      sent[j].current <= sent[k].current

C34_ProgressRange ==
  [][\A r \in RunIds :
       (Live(r) /\ runs[r].totalSlides >= 1) =>
         \A k \in (Len(sent) + 1)..Len(sent') :
           sent'[k].type = "PROGRESS_UPDATE" =>
             /\ sent'[k].total = runs[r].totalSlides
             /\ 1 <= sent'[k].current
             /\ sent'[k].current <= sent'[k].total]_vars

\* A run for two pages has reported 1 of 2 and 2 of 2 from the lookup and
\* 1 of 2 again from the image fetches.
C34_Witness ==
  \E r \in RunIds :
    /\ runs[r].pc = "fetching" /\ runs[r].totalSlides = 2
    /\ sent = <<ProgressUpdate(1, 2), ProgressUpdate(2, 2), ProgressUpdate(1, 2)>>

\* ------------------------------------------------------------ the request
\* C35: every screenshot a run collects shows the tab of its request, also
\* when another tab has become the visible one meanwhile.
C35_ScreenshotsOfRequestTab ==
  \A r \in RunIds :
    Live(r) =>
      \A k \in 1..Len(runs[r].images) :
        runs[r].images[k].via = "screenshot" => runs[r].images[k].tab = runs[r].tabId

\* C36: when GET_DOCUMENT_TITLE cannot be delivered the run ends in failed
\* with one CAPTURE_ERROR, no strategy started, and activeCapture null; when
\* the reply has an empty title the run goes on under the default name.
C36_TitleLookup ==
  /\ [][\A r \in RunIds :
         /\ DocumentTitleRejected(r) =>
              /\ runs'[r].pc = "failed" /\ runs'[r].tried = <<>>
              /\ runs[r].ops = <<>> /\ runs[r].net = {}
              /\ activeCapture'.null
              /\ \A k \in 1..Len(sent) : sent[k] = CaptureError(BusyMessage)
              /\ Len(sent') = Len(sent) + 1
              /\ SubSeq(sent', 1, Len(sent)) = sent
              /\ sent'[Len(sent')].type = "CAPTURE_ERROR"
              /\ sent'[Len(sent')].error # BusyMessage
         /\ OnDocumentTitle(r) =>
              /\ runs'[r].pc = "urlsRequested"
              /\ runs'[r].documentTitle \in {"Deck", "docsend-presentation"}]_vars
  /\ [](\A r \in RunIds :
          (Live(r) /\ runs[r].pc # "awaitTitle") =>
            runs[r].documentTitle # "" /\ runs[r].tried # <<>>)

\* One run failed on the title lookup; the next one got an empty title and
\* goes on as docsend-presentation.
C36_Witness ==
  /\ Len(runs) = 2
  /\ runs[1].pc = "failed" /\ runs[1].tried = <<>>
  /\ runs[2].pc = "urlsRequested" /\ runs[2].documentTitle = "docsend-presentation"

\* C37: the reply to START_CAPTURE says started: true only for a request
\* that passed the entry guard; a request turned away as busy is not
\* answered as started.
C37_StartedOnlyIfAccepted ==
  \A r \in RunIds : runs[r].reply.started => runs[r].pc # "rejected"

\* ------------------------------------------------------------ formatMarkdown
\* C38: in the html formatMarkdown returns, a list is opened only when none
\* is open, closed only by its own closing tag, no header or paragraph is
\* opened while a list is open, every <li> stands in an open list of the
\* kind of its line (<ul> for a bullet, <ol> for a number), and no list is
\* open at the end.
C38_BalancedLists ==
  LET html == formatter.html
      required(i) ==
        LET line == Emphasis(formatter.lines[i])
        IN IF line[1] \in {"-", "*"} THEN "ul"
           ELSE IF line[1] \in Digits THEN "ol" ELSE "no list"
      RECURSIVE open(_)
      open(k) ==
        IF k = 0 THEN "none"
        ELSE LET before == open(k - 1)
                 s == html[k].s
             IN CASE before = "bad" -> "bad"
                  [] s = "<ul>" -> IF before = "none" THEN "ul" ELSE "bad"
                  [] s = "<ol>" -> IF before = "none" THEN "ol" ELSE "bad"
                  [] s = "</ul>" -> IF before = "ul" THEN "none" ELSE "bad"
                  [] s = "</ol>" -> IF before = "ol" THEN "none" ELSE "bad"
                  [] s = "<li>" ->
                       IF /\ html[k].line \in 1..Len(formatter.lines)
                          /\ Len(formatter.lines[html[k].line]) > 0
                          /\ before = required(html[k].line)
                       THEN before ELSE "bad"
                  [] s \in {"<h2>", "<h3>", "<h4>", "<p>"} ->
                       IF before = "none" THEN "none" ELSE "bad"
                  [] OTHER -> before
  IN formatter.st = "returned" => open(Len(html)) = "none"

\* A numbered item followed by a bullet: </ol> right before <ul>, and </ul>
\* as the last piece.
C38_Witness ==
  /\ formatter.st = "returned"
  /\ Len(formatter.lines) = 2
  /\ \E k \in 1..(Len(formatter.html) - 1) :
       formatter.html[k].s = "</ol>" /\ formatter.html[k + 1].s = "<ul>"
  /\ formatter.html[Len(formatter.html)].s = "</ul>"

\* ------------------------------------------------------------------ popup
\* C39: once showState has run, exactly one panel is visible; a
\* PROGRESS_UPDATE leaves the visible panel as it is; from COMPLETE or ERROR
\* the PROGRESS panel comes up only in a click handler that runs
\* startDownload; COMPLETE comes up only in the CAPTURE_COMPLETE handler.
C39_PopupStates ==
  /\ []((popup.loaded /\ popup.shown # "") =>
          LET all == {States[k] : k \in DOMAIN States}
          IN all \ popup.hidden = {popup.shown} /\ popup.shown \in all)
  /\ [][LET all == {States[k] : k \in DOMAIN States}
        IN /\ popup'.handler = "PROGRESS_UPDATE" => popup'.hidden = popup.hidden
           /\ (/\ all \ popup.hidden \in {{States.COMPLETE}, {States.ERROR}}
               /\ all \ popup'.hidden = {States.PROGRESS})
                => popup'.handler \in {"download-btn", "download-again-btn"}
           /\ (/\ all \ popup'.hidden = {States.COMPLETE}
               /\ all \ popup.hidden # {States.COMPLETE})
                => popup'.handler = "CAPTURE_COMPLETE"]_vars

\* A PROGRESS_UPDATE has arrived while the COMPLETE panel was up, and it is
\* still up.
C39_Witness ==
  /\ popup.loaded
  /\ popup.handler = "PROGRESS_UPDATE"
  /\ popup.shown = "complete-state"
  /\ popup.hidden = {"ready-state", "progress-state", "error-state",
                     "not-docsend-state", "auth-required-state"}


====
